---- MODULE Spec2Model ----
(***************************************************************************)
(* A model of the tatu-lang tree-walking interpreter: the runtime values,  *)
(* the chained Environment, and the evaluator of pkg/interpreter with its  *)
(* tail-call trampoline.  The Go call stack is an explicit stack of        *)
(* frames, one per active Go function; the Go heap (environments, backing  *)
(* arrays of vectors, maps) is explicit too.                               *)
(***************************************************************************)
EXTENDS Integers, Sequences, FiniteSets, TLC

VARIABLES
    pid,        \* which program of the corpus is run (set once in Init)
    program,    \* ast.AST.Program: the top-level expressions
    topIdx,     \* index of the top-level expression EvalProgram is at
    ctrl,       \* what the evaluator is doing: a call, a return, ...
    stack,      \* the Go call stack: frames of the active functions
    envs,       \* heap of runtime.Environment objects (index = pointer)
    arrays,     \* heap of backing arrays of Vector.Elements slices
    maps,       \* heap of Go maps behind Map.Elements
    lastValue,  \* EvalProgram's lastValue
    output      \* what `print` wrote, one entry per call

vars == <<pid, program, topIdx, ctrl, stack, envs, arrays, maps, lastValue, output>>

----------------------------------------------------------------------------
(* Bounds of the model. *)

MaxN == 5          \* arguments of the recursive programs range over 0..MaxN
MaxArity == 2      \* parameter and argument counts range over 0..MaxArity
MaxOperands == 3   \* `and` / `or` forms have 0..MaxOperands operands
MaxIterations == 2 \* the loops of the while programs run 0..MaxIterations times
MaxLen == 3        \* vectors of the push programs have 0..MaxLen elements
MaxSpare == 1      \* a growing append allocates 0..MaxSpare slots beyond the ones needed

----------------------------------------------------------------------------
(* AST nodes (pkg/ast): atoms and one composite list kind, each with a     *)
(* location.  NoLoc is the location of an error that carries none.         *)

NoLoc == <<>>

NumberExpr(n) == [k |-> "num", n |-> n, loc |-> NoLoc]
StringExpr(s) == [k |-> "str", s |-> s, loc |-> NoLoc]
BoolExpr(b) == [k |-> "bool", b |-> b, loc |-> NoLoc]
NilExpr == [k |-> "nil", loc |-> NoLoc]
SymbolExpr(s) == [k |-> "sym", s |-> s, loc |-> NoLoc]
ListExpr(l) == [k |-> "list", l |-> l, loc |-> NoLoc]

(* The parser gives every node its own location: node i of the program is  *)
(* at <<i>>, and child j of the node at p is at p with j appended.         *)
RECURSIVE Locate(_, _)
Locate(e, p) ==
    IF e.k = "list"
    THEN [k |-> "list",
          l |-> [j \in 1..Len(e.l) |-> Locate(e.l[j], Append(p, j))],
          loc |-> p]
    ELSE [e EXCEPT !.loc = p]

LocateProgram(exprs) == [j \in 1..Len(exprs) |-> Locate(exprs[j], <<j>>)]

IsSymbol(e, s) == e.k = "sym" /\ e.s = s

(* SyntaxSugar.defToVar: (def name (params) body) becomes                  *)
(* (var name (lambda (params) body)).                                      *)
defToVar(name, params, body) ==
    ListExpr(<<SymbolExpr("var"), name,
               ListExpr(<<SymbolExpr("lambda"), params, body>>)>>)

----------------------------------------------------------------------------
(* Runtime values (pkg/runtime).  GoNil is the nil interface value, which  *)
(* is not a runtime.Value: calling Type() on it is a nil dereference.      *)

Number(n) == [t |-> "NUMBER", n |-> n]
String(s) == [t |-> "STRING", s |-> s]
Bool(b) == [t |-> "BOOL", b |-> b]
Nil == [t |-> "NIL"]
Vector(arr, len, cap) == [t |-> "VECTOR", arr |-> arr, len |-> len, cap |-> cap]
Map(ref) == [t |-> "MAP", ref |-> ref]
Function(env, params, body) == [t |-> "FUNC", env |-> env, params |-> params, body |-> body]
NativeFunction(name) == [t |-> "NATIVE_FUNC", name |-> name]
RecurBindings(args) == [t |-> "RECUR", args |-> args]

(* A NewFunction that keeps a copy of the environment. *)
NewFunctionCopy(heap, env, params, body) ==
    [heap |-> Append(heap, heap[env]),
     value |-> Function(Len(heap) + 1, params, body)]

(* runtime.NewFunction(env, params, body): the Function holds the pointer  *)
(* env; nothing is allocated or copied on the heap of environments.        *)
NewFunction(heap, env, params, body) ==
    [heap |-> heap, value |-> Function(env, params, body)]

(* The nil interface value of Go (a runtime.Value that holds nothing). *)
GoNil == [t |-> "go-nil"]

(* The slice of values a Go function returns (evalFunctionArguments). *)
Values(vs) == [t |-> "values", vs |-> vs]

(* debug.Error built by Interpreter.error (message, argument, location),   *)
(* and a plain Go error (fmt.Errorf), which has no location.               *)
error(msg, arg, loc) == [msg |-> msg, arg |-> arg, loc |-> loc]
Errorf(msg, arg) == [msg |-> msg, arg |-> arg, loc |-> NoLoc]

----------------------------------------------------------------------------
(* Environment (pkg/runtime): a record and a parent pointer; pointer 0 is  *)
(* nil.  The heap `envs` maps pointers to environments.                    *)

EmptyRecord == [n \in {} |-> Nil]

NewEnvironment(record, parent) == [record |-> record, parent |-> parent]

Bind(record, name, value) ==
    [n \in (DOMAIN record) \cup {name} |-> IF n = name THEN value ELSE record[n]]

(* A Define without the already-defined check: the binding is overwritten. *)
DefineOverwrite(heap, env, name, value) ==
    [ok |-> TRUE,
     heap |-> [heap EXCEPT ![env].record = Bind(@, name, value)],
     value |-> value, err |-> GoNil]

(* Define: fails when name is in the record of env itself. *)
Define(heap, env, name, value) ==
    IF name \in DOMAIN heap[env].record
    THEN [ok |-> FALSE, heap |-> heap, value |-> GoNil,
          err |-> Errorf("symbol already defined", name)]
    ELSE [ok |-> TRUE,
          heap |-> [heap EXCEPT ![env].record = Bind(@, name, value)],
          value |-> value, err |-> GoNil]

(* An Assign that binds name in the outermost scope when no scope has it.  *)
RECURSIVE AssignOrCreate(_, _, _, _)
AssignOrCreate(heap, env, name, value) ==
    IF name \in DOMAIN heap[env].record
    THEN [found |-> TRUE, heap |-> [heap EXCEPT ![env].record[name] = value]]
    ELSE IF heap[env].parent # 0
         THEN AssignOrCreate(heap, heap[env].parent, name, value)
         ELSE [found |-> TRUE,
               heap |-> [heap EXCEPT ![env].record = Bind(@, name, value)]]

(* Assign: mutates the first record of the chain that has name. *)
RECURSIVE Assign(_, _, _, _)
Assign(heap, env, name, value) ==
    IF name \in DOMAIN heap[env].record
    THEN [found |-> TRUE, heap |-> [heap EXCEPT ![env].record[name] = value]]
    ELSE IF heap[env].parent # 0
         THEN Assign(heap, heap[env].parent, name, value)
         ELSE [found |-> FALSE, heap |-> heap]

(* Lookup: the value in the first record of the chain that has name. *)
RECURSIVE Lookup(_, _, _)
Lookup(heap, env, name) ==
    IF name \in DOMAIN heap[env].record
    THEN [found |-> TRUE, value |-> heap[env].record[name]]
    ELSE IF heap[env].parent # 0
         THEN Lookup(heap, heap[env].parent, name)
         ELSE [found |-> FALSE, value |-> GoNil]

----------------------------------------------------------------------------
(* Native functions (pkg/core/builtins).  A native gets the evaluated      *)
(* arguments and returns a value or a plain error; calling Type() on a nil *)
(* argument panics.  Numbers of the model are the integers.                *)

Ok(value) == [k |-> "ok", value |-> value, err |-> GoNil]
Err(e) == [k |-> "err", value |-> GoNil, err |-> e]
Panic(msg) == [k |-> "panic", value |-> GoNil, err |-> Errorf(msg, "")]

(* Index of the first argument whose type is not in types, 0 if none. *)
FirstInvalid(args, types) ==
    IF \E j \in 1..Len(args) : args[j].t \notin types
    THEN CHOOSE j \in 1..Len(args) :
            /\ args[j].t \notin types
            /\ \A h \in 1..(j - 1) : args[h].t \in types
    ELSE 0

(* What a loop checking arg.Type() against types does at its first         *)
(* offending argument.                                                     *)
InvalidType(name, args, types) ==
    LET j == FirstInvalid(args, types)
    IN  IF args[j] = GoNil THEN Panic("nil pointer dereference")
        ELSE Err(Errorf("invalid type " \o args[j].t, name))

(* Number.String for integral values ("%.0f"). *)
NumberString(n) == IF n = 0 THEN "0" ELSE ToString(n)

ValueString(v) ==
    CASE v.t = "NUMBER" -> NumberString(v.n)
      [] v.t = "STRING" -> v.s
      [] v.t = "BOOL" -> IF v.b THEN "true" ELSE "false"
      [] v.t = "NIL" -> "<nil>"
      [] v.t = "FUNC" -> "Function()"
      [] v.t = "NATIVE_FUNC" -> "NativeFunction()"
      [] v.t = "RECUR" -> "__recur__"
      [] OTHER -> "?"

RECURSIVE Sum(_)
Sum(args) == IF args = <<>> THEN 0 ELSE args[1].n + Sum(Tail(args))

RECURSIVE Product(_)
Product(args) == IF args = <<>> THEN 1 ELSE args[1].n * Product(Tail(args))

RECURSIVE Concat(_)
Concat(args) == IF args = <<>> THEN "" ELSE ValueString(args[1]) \o Concat(Tail(args))

(* An add that sums unless its first operand is a String. *)
addFirstDecides(args) ==
    IF Len(args) < 2 THEN Err(Errorf("expected at least 2 arguments", "+"))
    ELSE IF FirstInvalid(args, {"NUMBER", "STRING"}) # 0
         THEN InvalidType("+", args, {"NUMBER", "STRING"})
    ELSE IF args[1].t = "STRING"
         THEN Ok(String(Concat(args)))
    ELSE Ok(Number(Sum([j \in 1..Len(args) |->
                            IF args[j].t = "NUMBER" THEN args[j] ELSE Number(0)])))

add(args) ==
    IF Len(args) < 2 THEN Err(Errorf("expected at least 2 arguments", "+"))
    ELSE IF FirstInvalid(args, {"NUMBER", "STRING"}) # 0
         THEN InvalidType("+", args, {"NUMBER", "STRING"})
    ELSE IF \E j \in 1..Len(args) : args[j].t = "STRING"
         THEN Ok(String(Concat(args)))
    ELSE Ok(Number(Sum(args)))

subtract(args) ==
    IF Len(args) < 1 THEN Err(Errorf("expected at least 1 argument", "-"))
    ELSE IF FirstInvalid(args, {"NUMBER"}) # 0
         THEN InvalidType("-", args, {"NUMBER"})
    ELSE IF Len(args) = 1 THEN Ok(Number(0 - args[1].n))
    ELSE Ok(Number(args[1].n - Sum(Tail(args))))

multiply(args) ==
    IF Len(args) < 2 THEN Err(Errorf("expected at least 2 arguments", "*"))
    ELSE IF FirstInvalid(args, {"NUMBER"}) # 0
         THEN InvalidType("*", args, {"NUMBER"})
    ELSE Ok(Number(Product(args)))

equal(args) ==
    IF Len(args) # 2 THEN Err(Errorf("expected 2 arguments", "="))
    ELSE IF args[1] = GoNil \/ args[2] = GoNil THEN Panic("nil pointer dereference")
    ELSE IF args[1].t # args[2].t THEN Err(Errorf("cannot compare", "="))
    ELSE CASE args[1].t = "NUMBER" -> Ok(Bool(args[1].n = args[2].n))
           [] args[1].t = "STRING" -> Ok(Bool(args[1].s = args[2].s))
           [] args[1].t = "BOOL" -> Ok(Bool(args[1].b = args[2].b))
           [] args[1].t = "NIL" -> Ok(Bool(TRUE))
           [] OTHER -> Err(Errorf("invalid type " \o args[1].t, "="))

(* compareOrdered: -1, 0 or 1 for Numbers (Strings of the model are        *)
(* compared for equality only).                                            *)
compareOrdered(name, args) ==
    IF Len(args) # 2 THEN Err(Errorf("expected 2 arguments", name))
    ELSE IF args[1] = GoNil \/ args[2] = GoNil THEN Panic("nil pointer dereference")
    ELSE IF args[1].t # args[2].t THEN Err(Errorf("cannot compare", name))
    ELSE IF args[1].t = "NUMBER"
         THEN Ok(IF args[1].n < args[2].n THEN -1
                 ELSE IF args[1].n > args[2].n THEN 1 ELSE 0)
    ELSE Err(Errorf("invalid type " \o args[1].t, name))

greaterThan(args) ==
    LET cmp == compareOrdered(">", args)
    IN  IF cmp.k # "ok" THEN cmp ELSE Ok(Bool(cmp.value > 0))

lessThan(args) ==
    LET cmp == compareOrdered("<", args)
    IN  IF cmp.k # "ok" THEN cmp ELSE Ok(Bool(cmp.value < 0))

not(args) ==
    IF Len(args) # 1 THEN Err(Errorf("expected 1 argument", "not"))
    ELSE IF args[1] = GoNil THEN Panic("nil pointer dereference")
    ELSE IF args[1].t # "BOOL" THEN Err(Errorf("invalid type " \o args[1].t, "not"))
    ELSE Ok(Bool(~args[1].b))

(* core.ExpectArgs *)
ExpectArgs(name, expected, args) == Len(args) = expected

isNil(args) ==
    IF ~ExpectArgs("is-nil", 1, args) THEN Err(Errorf("expects 1 argument(s)", "is-nil"))
    ELSE IF args[1] = GoNil THEN Panic("nil pointer dereference")
    ELSE Ok(Bool(args[1].t = "NIL"))

(* printFn writes its arguments and returns Nil. *)
printFn(args) == Ok(Nil)

(* The registry built by NewInterpreter (the natives of the model). *)
natives == {"+", "-", "*", "=", ">", "<", "not", "is-nil", "print",
            "vec:len", "vec:get", "vec:set", "vec:push", "vec:slice",
            "vec:delete", "vec:pop",
            "map:get", "map:set", "map:delete", "map:merge", "map:keys", "map:values"}

(* NativeFunction.Value(args...): the native registered under name. *)
CallNative(name, args) ==
    CASE name = "+" -> add(args)
      [] name = "-" -> subtract(args)
      [] name = "*" -> multiply(args)
      [] name = "=" -> equal(args)
      [] name = ">" -> greaterThan(args)
      [] name = "<" -> lessThan(args)
      [] name = "not" -> not(args)
      [] name = "is-nil" -> isNil(args)
      [] name = "print" -> printFn(args)

----------------------------------------------------------------------------
(* Natives of vectors and maps (pkg/core/stdlib).  A Vector is a struct    *)
(* holding a slice and a Map a struct holding a Go map, and both are       *)
(* passed and stored by value: what a binding, an element or an argument   *)
(* holds is a slice header (array, len, cap) or a map reference.  These    *)
(* natives get the heaps and return them changed.  Indexes are 0-based.    *)

Effect(r, arrs, mps) ==
    [k |-> r.k, value |-> r.value, err |-> r.err, arrays |-> arrs, maps |-> mps]

(* core.ExpectVector, ExpectMap, ExpectString, ExpectIntegerNumber (every  *)
(* Number of the model is integral) on argument j.                         *)
Expect(name, type, j, args) ==
    IF args[j] = GoNil THEN Panic("nil pointer dereference")
    ELSE IF args[j].t # type
    THEN Err(Errorf("expects " \o type \o " at argument " \o ToString(j)
                    \o ", got " \o args[j].t, name))
    ELSE Ok(args[j])

(* The first check of a sequence that did not pass; Ok if all did. *)
FirstFailed(checks) ==
    IF \E j \in 1..Len(checks) : checks[j].k # "ok"
    THEN checks[CHOOSE j \in 1..Len(checks) :
                    /\ checks[j].k # "ok"
                    /\ \A h \in 1..(j - 1) : checks[h].k = "ok"]
    ELSE Ok(Nil)

WrongArgs(name, expected) ==
    Err(Errorf("expects " \o ToString(expected) \o " argument(s)", name))

validateVectorIndex(name, args) ==
    LET checked == FirstFailed(<<Expect(name, "VECTOR", 1, args),
                                 Expect(name, "NUMBER", 2, args)>>)
    IN  IF checked.k # "ok" THEN checked
        ELSE IF args[2].n < 0 \/ args[2].n >= args[1].len
        THEN Err(Errorf("index out of bounds", name))
        ELSE Ok(Nil)

vectorLen(arrs, mps, args) ==
    IF ~ExpectArgs("vec:len", 1, args) THEN Effect(WrongArgs("vec:len", 1), arrs, mps)
    ELSE LET checked == Expect("vec:len", "VECTOR", 1, args)
         IN  IF checked.k # "ok" THEN Effect(checked, arrs, mps)
             ELSE Effect(Ok(Number(args[1].len)), arrs, mps)

vectorGet(arrs, mps, args) ==
    IF ~ExpectArgs("vec:get", 2, args) THEN Effect(WrongArgs("vec:get", 2), arrs, mps)
    ELSE LET checked == validateVectorIndex("vec:get", args)
         IN  IF checked.k # "ok" THEN Effect(checked, arrs, mps)
             ELSE Effect(Ok(arrs[args[1].arr][args[2].n + 1]), arrs, mps)

(* A vectorSet that writes into a copy of the elements. *)
vectorSetCopy(arrs, mps, args) ==
    IF ~ExpectArgs("vec:set", 3, args) THEN Effect(WrongArgs("vec:set", 3), arrs, mps)
    ELSE LET checked == validateVectorIndex("vec:set", args)
         IN  IF checked.k # "ok" THEN Effect(checked, arrs, mps)
             ELSE Effect(Ok(Vector(Len(arrs) + 1, args[1].len, args[1].cap)),
                         Append(arrs, [arrs[args[1].arr] EXCEPT ![args[2].n + 1] = args[3]]),
                         mps)

(* vector.Elements[index] = args[2]: a write into the shared array. *)
vectorSet(arrs, mps, args) ==
    IF ~ExpectArgs("vec:set", 3, args) THEN Effect(WrongArgs("vec:set", 3), arrs, mps)
    ELSE LET checked == validateVectorIndex("vec:set", args)
         IN  IF checked.k # "ok" THEN Effect(checked, arrs, mps)
             ELSE Effect(Ok(args[1]),
                         [arrs EXCEPT ![args[1].arr][args[2].n + 1] = args[3]], mps)

(* append(s, x) of Go: within the capacity it writes into the array of s,  *)
(* otherwise into a new array with room for len + 1 + spare elements; the  *)
(* result is a new slice header either way.                                *)
append(arrs, v, x, spare) ==
    IF v.len < v.cap
    THEN [arrays |-> [arrs EXCEPT ![v.arr][v.len + 1] = x],
          value |-> Vector(v.arr, v.len + 1, v.cap)]
    ELSE [arrays |-> Append(arrs, SubSeq(arrs[v.arr], 1, v.len) \o <<x>>
                                  \o [j \in 1..spare |-> GoNil]),
          value |-> Vector(Len(arrs) + 1, v.len + 1, v.len + 1 + spare)]

(* vector.Elements = append(vector.Elements, args[1]) on the vector the    *)
(* native received, which is a copy of the caller's struct.                *)
vectorPush(arrs, mps, args, spare) ==
    IF ~ExpectArgs("vec:push", 2, args) THEN Effect(WrongArgs("vec:push", 2), arrs, mps)
    ELSE LET checked == Expect("vec:push", "VECTOR", 1, args)
         IN  IF checked.k # "ok" THEN Effect(checked, arrs, mps)
             ELSE LET a == append(arrs, args[1], args[2], spare)
                  IN  Effect(Ok(a.value), a.arrays, mps)

(* vector.Elements = append(vector.Elements[:index],                       *)
(* vector.Elements[index+1:]...): the elements after index move one place  *)
(* down in the array (the result always fits the capacity), and the slice  *)
(* header of the native's copy of the struct gets the length len - 1.      *)
vectorDelete(arrs, mps, args) ==
    IF ~ExpectArgs("vec:delete", 2, args) THEN Effect(WrongArgs("vec:delete", 2), arrs, mps)
    ELSE LET checked == validateVectorIndex("vec:delete", args)
             index == args[2].n
             v == args[1]
         IN  IF checked.k # "ok" THEN Effect(checked, arrs, mps)
             ELSE Effect(Ok(Vector(v.arr, v.len - 1, v.cap)),
                         [arrs EXCEPT ![v.arr] =
                             [j \in 1..Len(@) |->
                                 IF j > index /\ j < v.len THEN @[j + 1] ELSE @[j]]],
                         mps)

(* vector.Elements = vector.Elements[:len-1] on the native's copy of the   *)
(* struct: a new slice header over the same array.                         *)
vectorPop(arrs, mps, args) ==
    IF ~ExpectArgs("vec:pop", 1, args) THEN Effect(WrongArgs("vec:pop", 1), arrs, mps)
    ELSE LET checked == Expect("vec:pop", "VECTOR", 1, args)
         IN  IF checked.k # "ok" THEN Effect(checked, arrs, mps)
             ELSE IF args[1].len = 0
             THEN Effect(Err(Errorf("cannot pop from empty vector", "vec:pop")), arrs, mps)
             ELSE Effect(Ok(Vector(args[1].arr, args[1].len - 1, args[1].cap)), arrs, mps)

vectorSlice(arrs, mps, args) ==
    IF ~ExpectArgs("vec:slice", 3, args) THEN Effect(WrongArgs("vec:slice", 3), arrs, mps)
    ELSE LET checked == FirstFailed(<<Expect("vec:slice", "VECTOR", 1, args),
                                      Expect("vec:slice", "NUMBER", 2, args),
                                      Expect("vec:slice", "NUMBER", 3, args)>>)
             start == args[2].n
             end == args[3].n
         IN  IF checked.k # "ok" THEN Effect(checked, arrs, mps)
             ELSE IF start < 0 \/ start > args[1].len
             THEN Effect(Err(Errorf("start index out of bounds", "vec:slice")), arrs, mps)
             ELSE IF end < 0 \/ end > args[1].len
             THEN Effect(Err(Errorf("end index out of bounds", "vec:slice")), arrs, mps)
             ELSE IF start > end
             THEN Effect(Err(Errorf("start index cannot be greater than end index",
                                    "vec:slice")), arrs, mps)
             ELSE Effect(Ok(Vector(Len(arrs) + 1, end - start, end - start)),
                         Append(arrs, SubSeq(arrs[args[1].arr], start + 1, end)), mps)

mapGet(arrs, mps, args) ==
    IF ~ExpectArgs("map:get", 2, args) THEN Effect(WrongArgs("map:get", 2), arrs, mps)
    ELSE LET checked == FirstFailed(<<Expect("map:get", "MAP", 1, args),
                                      Expect("map:get", "STRING", 2, args)>>)
         IN  IF checked.k # "ok" THEN Effect(checked, arrs, mps)
             ELSE IF args[2].s \notin DOMAIN mps[args[1].ref]
             THEN Effect(Ok(Nil), arrs, mps)
             ELSE Effect(Ok(mps[args[1].ref][args[2].s]), arrs, mps)

mapSet(arrs, mps, args) ==
    IF ~ExpectArgs("map:set", 3, args) THEN Effect(WrongArgs("map:set", 3), arrs, mps)
    ELSE LET checked == FirstFailed(<<Expect("map:set", "MAP", 1, args),
                                      Expect("map:set", "STRING", 2, args)>>)
         IN  IF checked.k # "ok" THEN Effect(checked, arrs, mps)
             ELSE Effect(Ok(args[1]), arrs,
                         [mps EXCEPT ![args[1].ref] = Bind(@, args[2].s, args[3])])

mapDelete(arrs, mps, args) ==
    IF ~ExpectArgs("map:delete", 2, args) THEN Effect(WrongArgs("map:delete", 2), arrs, mps)
    ELSE LET checked == FirstFailed(<<Expect("map:delete", "MAP", 1, args),
                                      Expect("map:delete", "STRING", 2, args)>>)
         IN  IF checked.k # "ok" THEN Effect(checked, arrs, mps)
             ELSE Effect(Ok(args[1]), arrs,
                         [mps EXCEPT ![args[1].ref] =
                             [n \in (DOMAIN @) \ {args[2].s} |-> @[n]]])

mapMerge(arrs, mps, args) ==
    IF ~ExpectArgs("map:merge", 2, args) THEN Effect(WrongArgs("map:merge", 2), arrs, mps)
    ELSE LET checked == FirstFailed(<<Expect("map:merge", "MAP", 1, args),
                                      Expect("map:merge", "MAP", 2, args)>>)
             otherMap == mps[args[2].ref]
         IN  IF checked.k # "ok" THEN Effect(checked, arrs, mps)
             ELSE Effect(Ok(args[1]), arrs,
                         [mps EXCEPT ![args[1].ref] =
                             [n \in (DOMAIN @) \cup DOMAIN otherMap |->
                                 IF n \in DOMAIN otherMap THEN otherMap[n] ELSE @[n]]])

(* The orders in which a range over a Go map with these keys can yield     *)
(* them: the language leaves the order open, and it differs from one range *)
(* to the next.                                                            *)
Orders(keys) ==
    {order \in [1..Cardinality(keys) -> keys] :
        \A j, h \in 1..Cardinality(keys) : order[j] = order[h] => j = h}

(* for key := range mapValue.Elements { keys = append(keys, ..) }: a new   *)
(* vector of the keys in the order of this range.                          *)
mapKeys(arrs, mps, args, order) ==
    IF ~ExpectArgs("map:keys", 1, args) THEN Effect(WrongArgs("map:keys", 1), arrs, mps)
    ELSE LET checked == Expect("map:keys", "MAP", 1, args)
         IN  IF checked.k # "ok" THEN Effect(checked, arrs, mps)
             ELSE Effect(Ok(Vector(Len(arrs) + 1, Len(order), Len(order))),
                         Append(arrs, [j \in 1..Len(order) |-> String(order[j])]), mps)

mapValues(arrs, mps, args, order) ==
    IF ~ExpectArgs("map:values", 1, args) THEN Effect(WrongArgs("map:values", 1), arrs, mps)
    ELSE LET checked == Expect("map:values", "MAP", 1, args)
         IN  IF checked.k # "ok" THEN Effect(checked, arrs, mps)
             ELSE Effect(Ok(Vector(Len(arrs) + 1, Len(order), Len(order))),
                         Append(arrs, [j \in 1..Len(order) |-> mps[args[1].ref][order[j]]]),
                         mps)

(* Value.String() of a value the program ends with: a vector as            *)
(* (e1 e2 ..), a map as [k1 v1 k2 v2 ..] in the order of the range over    *)
(* it, the nil interface as nothing; elements are atoms.                   *)
Rendering(v, arrs, mps, order) ==
    LET RECURSIVE Joined(_)
        Joined(s) == IF s = <<>> THEN ""
                     ELSE IF Len(s) = 1 THEN s[1]
                     ELSE s[1] \o " " \o Joined(Tail(s))
    IN  CASE v = GoNil -> ""
          [] v.t = "VECTOR" ->
               "(" \o Joined([j \in 1..v.len |-> ValueString(arrs[v.arr][j])]) \o ")"
          [] v.t = "MAP" ->
               "[" \o Joined([j \in 1..Len(order) |->
                                 order[j] \o " " \o ValueString(mps[v.ref][order[j]])])
                   \o "]"
          [] OTHER -> ValueString(v)

(* NativeFunction.Value(args...) with its effect on the heaps. *)
NativeEffect(name, arrs, mps, args, spare, order) ==
    CASE name = "vec:len" -> vectorLen(arrs, mps, args)
      [] name = "vec:get" -> vectorGet(arrs, mps, args)
      [] name = "vec:set" -> vectorSet(arrs, mps, args)
      [] name = "vec:push" -> vectorPush(arrs, mps, args, spare)
      [] name = "vec:slice" -> vectorSlice(arrs, mps, args)
      [] name = "vec:delete" -> vectorDelete(arrs, mps, args)
      [] name = "vec:pop" -> vectorPop(arrs, mps, args)
      [] name = "map:get" -> mapGet(arrs, mps, args)
      [] name = "map:set" -> mapSet(arrs, mps, args)
      [] name = "map:delete" -> mapDelete(arrs, mps, args)
      [] name = "map:merge" -> mapMerge(arrs, mps, args)
      [] name = "map:keys" -> mapKeys(arrs, mps, args, order)
      [] name = "map:values" -> mapValues(arrs, mps, args, order)
      [] OTHER -> Effect(CallNative(name, args), arrs, mps)

----------------------------------------------------------------------------
(* The evaluator (pkg/interpreter).                                        *)
(*                                                                         *)
(* ctrl.m = "call": evalInTailPosition(ctrl.expr, ctrl.env) is about to    *)
(* run; "ret" / "err": the function of the top frame gets a value / an     *)
(* error back from its callee; "panic": the Go runtime aborted the         *)
(* process; "idle", "done", "failed": EvalProgram's states.                *)

Call(e, env) == [m |-> "call", expr |-> e, env |-> env]
Ret(v) == [m |-> "ret", val |-> v]
Fail(e) == [m |-> "err", err |-> e]
Crash(msg) == [m |-> "panic", msg |-> msg]

Top == stack[Len(stack)]
Pop == SubSeq(stack, 1, Len(stack) - 1)

Calling == ctrl.m = "call"
Returning(f) == ctrl.m \in {"ret", "err"} /\ stack # <<>> /\ Top.f = f

(* The stack a handler leaves below its callee: on entry its frame is      *)
(* pushed, on a later call its frame (the top one) is replaced.            *)
Base == IF ctrl.m = "call" THEN stack ELSE Pop

(* i.eval(e, env): the frame of eval on top of stk. *)
Strict(stk, e) == Append(stk, [f |-> "eval", expr |-> e])

(* evalInTailPosition: env == nil means the global environment. *)
global == 1
CurEnv == IF ctrl.env = 0 THEN global ELSE ctrl.env

SpecialForms == {"include", "and", "or", "begin", "var", "set", "if", "while",
                 "lambda", "recur", "vector", "map"}

(* The function that the type switch of evalInTailPosition / evalAtom and  *)
(* the symbol switch of evalList hand the expression to.                   *)
Handler(e) ==
    CASE e.k \in {"num", "str", "bool", "nil"} -> "evalAtom"
      [] e.k = "sym" -> "evalSymbol"
      [] e.k = "list" /\ Len(e.l) = 0 -> "evalList"
      [] e.k = "list" /\ Len(e.l) > 0 /\ e.l[1].k = "sym" /\ e.l[1].s \in SpecialForms ->
           (CASE e.l[1].s = "include" -> "evalList"
              [] e.l[1].s \in {"and", "or"} -> "evalLogical"
              [] e.l[1].s = "begin" -> "evalBegin"
              [] e.l[1].s = "var" -> "evalVar"
              [] e.l[1].s = "set" -> "evalSet"
              [] e.l[1].s = "if" -> "evalIf"
              [] e.l[1].s = "while" -> "evalWhile"
              [] e.l[1].s = "lambda" -> "evalLambda"
              [] e.l[1].s = "recur" -> "evalRecur"
              [] e.l[1].s = "vector" -> "evalVector"
              [] e.l[1].s = "map" -> "evalMap")
      [] OTHER -> "evalCallFunction"

Entering(f) == Calling /\ Handler(ctrl.expr) = f

(* EvalProgram: evaluates the top-level expressions in order with eval and *)
(* stops at the first error.                                               *)
EvalProgram ==
    /\ \/ /\ ctrl.m = "idle"
          /\ IF topIdx <= Len(program)
             THEN /\ stack' = Strict(<<[f |-> "EvalProgram"]>>, program[topIdx])
                  /\ ctrl' = Call(program[topIdx], 0)
             ELSE /\ stack' = <<>>
                  /\ ctrl' = [m |-> "done"]
          /\ UNCHANGED <<topIdx, lastValue>>
       \/ /\ Returning("EvalProgram")
          /\ IF ctrl.m = "err"
             THEN /\ ctrl' = [m |-> "failed", err |-> ctrl.err]
                  /\ stack' = <<>>
                  /\ lastValue' = GoNil
                  /\ UNCHANGED topIdx
             ELSE /\ lastValue' = ctrl.val
                  /\ topIdx' = topIdx + 1
                  /\ ctrl' = [m |-> "idle"]
                  /\ UNCHANGED stack
    /\ UNCHANGED <<pid, program, envs, arrays, maps, output>>

(* An eval that hands the marker on like any other value. *)
evalUnchecked ==
    /\ Returning("eval")
    /\ stack' = Pop
    /\ ctrl' = ctrl
    /\ UNCHANGED <<pid, program, topIdx, envs, arrays, maps, lastValue, output>>

(* eval: a recur marker coming out of a strict position is an error. *)
eval ==
    /\ Returning("eval")
    /\ stack' = Pop
    /\ ctrl' = IF ctrl.m = "err" THEN ctrl
               ELSE IF ctrl.val # GoNil /\ ctrl.val.t = "RECUR"
                    THEN Fail(error("recur can only be used in tail position of a function",
                                    "", Top.expr.loc))
                    ELSE ctrl
    /\ UNCHANGED <<pid, program, topIdx, envs, arrays, maps, lastValue, output>>

evalAtom ==
    /\ Entering("evalAtom")
    /\ ctrl' = Ret(CASE ctrl.expr.k = "num" -> Number(ctrl.expr.n)
                     [] ctrl.expr.k = "str" -> String(ctrl.expr.s)
                     [] ctrl.expr.k = "bool" -> Bool(ctrl.expr.b)
                     [] ctrl.expr.k = "nil" -> Nil)
    /\ UNCHANGED <<pid, program, topIdx, stack, envs, arrays, maps, lastValue, output>>

(* A resolution that asks the native registry before the environment. *)
SymbolValueNativeFirst(heap, env, sym) ==
    LET r == Lookup(heap, env, sym.s)
    IN  IF sym.s \in natives THEN Ret(NativeFunction(sym.s))
        ELSE IF r.found THEN Ret(r.value)
        ELSE Fail(error("unknown symbol", sym.s, sym.loc))

(* evalSymbol: the environment chain first, then the native registry. *)
SymbolValue(heap, env, sym) ==
    LET r == Lookup(heap, env, sym.s)
    IN  IF r.found THEN Ret(r.value)
        ELSE IF sym.s \in natives THEN Ret(NativeFunction(sym.s))
        ELSE Fail(error("unknown symbol", sym.s, sym.loc))

evalSymbol ==
    /\ Entering("evalSymbol")
    /\ ctrl' = SymbolValue(envs, CurEnv, ctrl.expr)
    /\ UNCHANGED <<pid, program, topIdx, stack, envs, arrays, maps, lastValue, output>>

(* evalList itself answers the empty list and an unresolved include. *)
evalList ==
    /\ Entering("evalList")
    /\ ctrl' = IF Len(ctrl.expr.l) = 0 THEN Ret(Nil)
               ELSE Fail(error("include not resolved", "", ctrl.expr.loc))
    /\ UNCHANGED <<pid, program, topIdx, stack, envs, arrays, maps, lastValue, output>>

(* An evalLogical that goes on to the next operand whatever the value of   *)
(* this one is.                                                            *)
evalLogicalEager ==
    /\ Entering("evalLogical") \/ Returning("evalLogical")
    /\ LET fr == IF Calling
                 THEN [f |-> "evalLogical", expr |-> ctrl.expr, env |-> CurEnv, idx |-> 1]
                 ELSE Top
           operator == fr.expr.l[1].s
           next == fr.idx + 1
           continue ==
               IF next > Len(fr.expr.l)
               THEN /\ ctrl' = Ret(Bool(operator = "and"))
                    /\ stack' = Base
               ELSE /\ ctrl' = Call(fr.expr.l[next], fr.env)
                    /\ stack' = Strict(Append(Base, [fr EXCEPT !.idx = next]), fr.expr.l[next])
       IN  IF Calling THEN continue
           ELSE IF ctrl.m = "err" THEN ctrl' = ctrl /\ stack' = Pop
           ELSE IF ctrl.val = GoNil
                THEN ctrl' = Crash("nil pointer dereference") /\ stack' = stack
           ELSE IF ctrl.val.t # "BOOL"
                THEN /\ ctrl' = Fail(error("invalid type " \o ctrl.val.t, operator,
                                           fr.expr.l[fr.idx].loc))
                     /\ stack' = Pop
           ELSE continue
    /\ UNCHANGED <<pid, program, topIdx, envs, arrays, maps, lastValue, output>>

(* evalLogical: `and` / `or`, operand by operand. *)
evalLogical ==
    /\ Entering("evalLogical") \/ Returning("evalLogical")
    /\ LET fr == IF Calling
                 THEN [f |-> "evalLogical", expr |-> ctrl.expr, env |-> CurEnv, idx |-> 1]
                 ELSE Top
           operator == fr.expr.l[1].s
           next == fr.idx + 1
           continue ==
               IF next > Len(fr.expr.l)
               THEN /\ ctrl' = Ret(Bool(operator = "and"))
                    /\ stack' = Base
               ELSE /\ ctrl' = Call(fr.expr.l[next], fr.env)
                    /\ stack' = Strict(Append(Base, [fr EXCEPT !.idx = next]), fr.expr.l[next])
       IN  IF Calling THEN continue
           ELSE IF ctrl.m = "err" THEN ctrl' = ctrl /\ stack' = Pop
           ELSE IF ctrl.val = GoNil
                THEN ctrl' = Crash("nil pointer dereference") /\ stack' = stack
           ELSE IF ctrl.val.t # "BOOL"
                THEN /\ ctrl' = Fail(error("invalid type " \o ctrl.val.t, operator,
                                           fr.expr.l[fr.idx].loc))
                     /\ stack' = Pop
           ELSE IF operator = "and" /\ ~ctrl.val.b
                THEN ctrl' = Ret(Bool(FALSE)) /\ stack' = Pop
           ELSE IF operator = "or" /\ ctrl.val.b
                THEN ctrl' = Ret(Bool(TRUE)) /\ stack' = Pop
           ELSE continue
    /\ UNCHANGED <<pid, program, topIdx, envs, arrays, maps, lastValue, output>>

(* A block that runs in the scope it is in. *)
BlockScopeShared(heap, env) == [heap |-> heap, env |-> env]

(* The scope of a block: runtime.NewEnvironment(nil, env), an empty record *)
(* whose parent is the scope the block is in.                              *)
BlockScope(heap, env) ==
    [heap |-> Append(heap, NewEnvironment(EmptyRecord, env)), env |-> Len(heap) + 1]

(* evalBegin: a new child scope; every expression but the last with eval,  *)
(* the last one in tail position.                                          *)
evalBegin ==
    /\ Entering("evalBegin") \/ Returning("evalBegin")
    /\ IF Calling
       THEN LET scope == BlockScope(envs, CurEnv)
                newEnv == scope.env
                n == Len(ctrl.expr.l)
                fr == [f |-> "evalBegin", expr |-> ctrl.expr, env |-> newEnv, idx |-> 2]
            IN  /\ envs' = scope.heap
                /\ IF n < 2
                   THEN ctrl' = Crash("slice bounds out of range") /\ stack' = stack
                   ELSE IF n = 2
                   THEN /\ ctrl' = Call(ctrl.expr.l[2], newEnv)
                        /\ stack' = Append(stack, [fr EXCEPT !.idx = 0])
                   ELSE /\ ctrl' = Call(ctrl.expr.l[2], newEnv)
                        /\ stack' = Strict(Append(stack, fr), ctrl.expr.l[2])
       ELSE /\ UNCHANGED envs
            /\ IF ctrl.m = "err" \/ Top.idx = 0
               THEN ctrl' = ctrl /\ stack' = Pop
               ELSE LET next == Top.idx + 1
                    IN  /\ ctrl' = Call(Top.expr.l[next], Top.env)
                        /\ stack' = IF next = Len(Top.expr.l)
                                    THEN Append(Pop, [Top EXCEPT !.idx = 0])
                                    ELSE Strict(Append(Pop, [Top EXCEPT !.idx = next]),
                                                Top.expr.l[next])
    /\ UNCHANGED <<pid, program, topIdx, arrays, maps, lastValue, output>>

(* An evalVar that leaves a Nil binding behind when the value fails. *)
evalVarBindsOnError ==
    /\ Entering("evalVar") \/ Returning("evalVar")
    /\ IF Calling
       THEN /\ ctrl' = Call(ctrl.expr.l[3], CurEnv)
            /\ stack' = Strict(Append(stack, [f |-> "evalVar", expr |-> ctrl.expr,
                                              env |-> CurEnv]), ctrl.expr.l[3])
            /\ UNCHANGED envs
       ELSE /\ stack' = Pop
            /\ IF ctrl.m = "err"
               THEN /\ ctrl' = ctrl
                    /\ envs' = Define(envs, Top.env, Top.expr.l[2].s, Nil).heap
               ELSE LET d == Define(envs, Top.env, Top.expr.l[2].s, ctrl.val)
                    IN  /\ envs' = d.heap
                        /\ ctrl' = IF d.ok THEN Ret(d.value) ELSE Fail(d.err)
    /\ UNCHANGED <<pid, program, topIdx, arrays, maps, lastValue, output>>

(* evalVar: eval the value, then Define it in the scope the form is in.    *)
(* The error of Define is returned as it is.                               *)
evalVar ==
    /\ Entering("evalVar") \/ Returning("evalVar")
    /\ IF Calling
       THEN /\ ctrl' = Call(ctrl.expr.l[3], CurEnv)
            /\ stack' = Strict(Append(stack, [f |-> "evalVar", expr |-> ctrl.expr,
                                              env |-> CurEnv]), ctrl.expr.l[3])
            /\ UNCHANGED envs
       ELSE /\ stack' = Pop
            /\ IF ctrl.m = "err" THEN ctrl' = ctrl /\ UNCHANGED envs
               ELSE LET d == Define(envs, Top.env, Top.expr.l[2].s, ctrl.val)
                    IN  /\ envs' = d.heap
                        /\ ctrl' = IF d.ok THEN Ret(d.value) ELSE Fail(d.err)
    /\ UNCHANGED <<pid, program, topIdx, arrays, maps, lastValue, output>>

(* evalSet: eval the value, then Assign it along the chain. *)
evalSet ==
    /\ Entering("evalSet") \/ Returning("evalSet")
    /\ IF Calling
       THEN /\ ctrl' = Call(ctrl.expr.l[3], CurEnv)
            /\ stack' = Strict(Append(stack, [f |-> "evalSet", expr |-> ctrl.expr,
                                              env |-> CurEnv]), ctrl.expr.l[3])
            /\ UNCHANGED envs
       ELSE /\ stack' = Pop
            /\ IF ctrl.m = "err" THEN ctrl' = ctrl /\ UNCHANGED envs
               ELSE LET a == Assign(envs, Top.env, Top.expr.l[2].s, ctrl.val)
                    IN  /\ envs' = a.heap
                        /\ ctrl' = IF a.found THEN Ret(ctrl.val)
                                   ELSE Fail(error("undefined variable", Top.expr.l[2].s,
                                                   Top.expr.l[2].loc))
    /\ UNCHANGED <<pid, program, topIdx, arrays, maps, lastValue, output>>

(* An evalIf that takes a condition that is not a Bool for false. *)
evalIfLenient ==
    /\ Entering("evalIf") \/ Returning("evalIf")
    /\ IF Calling
       THEN /\ ctrl' = Call(ctrl.expr.l[2], CurEnv)
            /\ stack' = Strict(Append(stack, [f |-> "evalIf", expr |-> ctrl.expr,
                                              env |-> CurEnv, pc |-> "cond"]), ctrl.expr.l[2])
       ELSE IF ctrl.m = "err" \/ Top.pc = "branch" THEN ctrl' = ctrl /\ stack' = Pop
       ELSE IF ctrl.val = GoNil
            THEN ctrl' = Crash("nil pointer dereference") /\ stack' = stack
       ELSE IF ctrl.val.t = "BOOL" /\ ctrl.val.b
            THEN /\ ctrl' = Call(Top.expr.l[3], Top.env)
                 /\ stack' = Append(Pop, [Top EXCEPT !.pc = "branch"])
       ELSE IF Len(Top.expr.l) = 4
            THEN /\ ctrl' = Call(Top.expr.l[4], Top.env)
                 /\ stack' = Append(Pop, [Top EXCEPT !.pc = "branch"])
       ELSE ctrl' = Ret(Nil) /\ stack' = Pop
    /\ UNCHANGED <<pid, program, topIdx, envs, arrays, maps, lastValue, output>>

(* evalIf: eval the condition, then the chosen branch in tail position. *)
evalIf ==
    /\ Entering("evalIf") \/ Returning("evalIf")
    /\ IF Calling
       THEN /\ ctrl' = Call(ctrl.expr.l[2], CurEnv)
            /\ stack' = Strict(Append(stack, [f |-> "evalIf", expr |-> ctrl.expr,
                                              env |-> CurEnv, pc |-> "cond"]), ctrl.expr.l[2])
       ELSE IF ctrl.m = "err" \/ Top.pc = "branch" THEN ctrl' = ctrl /\ stack' = Pop
       ELSE IF ctrl.val = GoNil
            THEN ctrl' = Crash("nil pointer dereference") /\ stack' = stack
       ELSE IF ctrl.val.t # "BOOL"
            THEN /\ ctrl' = Fail(error("expected BOOL, found " \o ctrl.val.t, "",
                                       Top.expr.l[2].loc))
                 /\ stack' = Pop
       ELSE IF ctrl.val.b
            THEN /\ ctrl' = Call(Top.expr.l[3], Top.env)
                 /\ stack' = Append(Pop, [Top EXCEPT !.pc = "branch"])
       ELSE IF Len(Top.expr.l) = 4
            THEN /\ ctrl' = Call(Top.expr.l[4], Top.env)
                 /\ stack' = Append(Pop, [Top EXCEPT !.pc = "branch"])
       ELSE ctrl' = Ret(Nil) /\ stack' = Pop
    /\ UNCHANGED <<pid, program, topIdx, envs, arrays, maps, lastValue, output>>

(* An evalWhile that runs its body in a scope of its own. *)
evalWhileScoped ==
    /\ Entering("evalWhile") \/ Returning("evalWhile")
    /\ IF Calling
       THEN /\ ctrl' = Call(ctrl.expr.l[2], CurEnv)
            /\ stack' = Strict(Append(stack, [f |-> "evalWhile", expr |-> ctrl.expr,
                                              env |-> CurEnv, pc |-> "cond",
                                              lastValue |-> GoNil]), ctrl.expr.l[2])
            /\ UNCHANGED envs
       ELSE IF ctrl.m = "err" THEN ctrl' = ctrl /\ stack' = Pop /\ UNCHANGED envs
       ELSE IF Top.pc = "body"
            THEN /\ ctrl' = Call(Top.expr.l[2], Top.env)
                 /\ stack' = Strict(Append(Pop, [Top EXCEPT !.pc = "cond",
                                                            !.lastValue = ctrl.val]),
                                    Top.expr.l[2])
                 /\ UNCHANGED envs
       ELSE IF ctrl.val = GoNil
            THEN ctrl' = Crash("nil pointer dereference") /\ stack' = stack /\ UNCHANGED envs
       ELSE IF ctrl.val.t # "BOOL"
            THEN /\ ctrl' = Fail(error("expected BOOL, found " \o ctrl.val.t, "",
                                       Top.expr.l[2].loc))
                 /\ stack' = Pop
                 /\ UNCHANGED envs
       ELSE IF ~ctrl.val.b
            THEN ctrl' = Ret(Top.lastValue) /\ stack' = Pop /\ UNCHANGED envs
       ELSE /\ envs' = Append(envs, NewEnvironment(EmptyRecord, Top.env))
            /\ ctrl' = Call(Top.expr.l[3], Len(envs) + 1)
            /\ stack' = Strict(Append(Pop, [Top EXCEPT !.pc = "body"]), Top.expr.l[3])
    /\ UNCHANGED <<pid, program, topIdx, arrays, maps, lastValue, output>>

(* evalWhile: lastValue is the nil interface until the body has run. *)
evalWhile ==
    /\ Entering("evalWhile") \/ Returning("evalWhile")
    /\ IF Calling
       THEN /\ ctrl' = Call(ctrl.expr.l[2], CurEnv)
            /\ stack' = Strict(Append(stack, [f |-> "evalWhile", expr |-> ctrl.expr,
                                              env |-> CurEnv, pc |-> "cond",
                                              lastValue |-> GoNil]), ctrl.expr.l[2])
       ELSE IF ctrl.m = "err" THEN ctrl' = ctrl /\ stack' = Pop
       ELSE IF Top.pc = "body"
            THEN /\ ctrl' = Call(Top.expr.l[2], Top.env)
                 /\ stack' = Strict(Append(Pop, [Top EXCEPT !.pc = "cond",
                                                            !.lastValue = ctrl.val]),
                                    Top.expr.l[2])
       ELSE IF ctrl.val = GoNil
            THEN ctrl' = Crash("nil pointer dereference") /\ stack' = stack
       ELSE IF ctrl.val.t # "BOOL"
            THEN /\ ctrl' = Fail(error("expected BOOL, found " \o ctrl.val.t, "",
                                       Top.expr.l[2].loc))
                 /\ stack' = Pop
       ELSE IF ~ctrl.val.b
            THEN ctrl' = Ret(Top.lastValue) /\ stack' = Pop
       ELSE /\ ctrl' = Call(Top.expr.l[3], Top.env)
            /\ stack' = Strict(Append(Pop, [Top EXCEPT !.pc = "body"]), Top.expr.l[3])
    /\ UNCHANGED <<pid, program, topIdx, envs, arrays, maps, lastValue, output>>

(* evalLambda: the closure holds the pointer of the environment it is      *)
(* created in.                                                             *)
evalLambda ==
    /\ Entering("evalLambda")
    /\ LET fn == NewFunction(envs, CurEnv, ctrl.expr.l[2], ctrl.expr.l[3])
       IN  ctrl' = Ret(fn.value) /\ envs' = fn.heap
    /\ UNCHANGED <<pid, program, topIdx, stack, arrays, maps, lastValue, output>>

(* evalRecur: eval every argument, return the marker. *)
evalRecur ==
    /\ Entering("evalRecur") \/ Returning("evalRecur")
    /\ LET fr == IF Calling
                 THEN [f |-> "evalRecur", expr |-> ctrl.expr, env |-> CurEnv, idx |-> 1,
                       args |-> <<>>]
                 ELSE [Top EXCEPT !.args = IF ctrl.m = "ret" THEN Append(@, ctrl.val) ELSE @]
           next == fr.idx + 1
       IN  IF ~Calling /\ ctrl.m = "err" THEN ctrl' = ctrl /\ stack' = Pop
           ELSE IF next > Len(fr.expr.l)
                THEN ctrl' = Ret(RecurBindings(fr.args)) /\ stack' = Base
           ELSE /\ ctrl' = Call(fr.expr.l[next], fr.env)
                /\ stack' = Strict(Append(Base, [fr EXCEPT !.idx = next]), fr.expr.l[next])
    /\ UNCHANGED <<pid, program, topIdx, envs, arrays, maps, lastValue, output>>

(* evalVector: eval every element, return a Vector over a new array. *)
evalVector ==
    /\ Entering("evalVector") \/ Returning("evalVector")
    /\ LET fr == IF Calling
                 THEN [f |-> "evalVector", expr |-> ctrl.expr, env |-> CurEnv, idx |-> 1,
                       elements |-> <<>>]
                 ELSE [Top EXCEPT !.elements = IF ctrl.m = "ret" THEN Append(@, ctrl.val) ELSE @]
           next == fr.idx + 1
       IN  IF ~Calling /\ ctrl.m = "err"
           THEN ctrl' = ctrl /\ stack' = Pop /\ UNCHANGED arrays
           ELSE IF next > Len(fr.expr.l)
                THEN /\ arrays' = Append(arrays, fr.elements)
                     /\ ctrl' = Ret(Vector(Len(arrays) + 1, Len(fr.elements), Len(fr.elements)))
                     /\ stack' = Base
           ELSE /\ ctrl' = Call(fr.expr.l[next], fr.env)
                /\ stack' = Strict(Append(Base, [fr EXCEPT !.idx = next]), fr.expr.l[next])
                /\ UNCHANGED arrays
    /\ UNCHANGED <<pid, program, topIdx, envs, maps, lastValue, output>>

(* An evalMap that takes a Symbol or String key expression literally and   *)
(* evaluates the values only.                                              *)
evalMapLiteralKeys ==
    /\ Entering("evalMap") \/ Returning("evalMap")
    /\ LET fr == IF Calling
                 THEN [f |-> "evalMap", expr |-> ctrl.expr, env |-> CurEnv, idx |-> 0,
                       pc |-> "value", key |-> "", elements |-> EmptyRecord]
                 ELSE Top
           literal(e) == IF e.k \in {"sym", "str"} THEN e.s ELSE ""
           pair(g, idx) ==
               IF idx > Len(g.expr.l)
               THEN /\ maps' = Append(maps, g.elements)
                    /\ ctrl' = Ret(Map(Len(maps) + 1))
                    /\ stack' = Base
               ELSE IF idx + 1 > Len(g.expr.l)
               THEN ctrl' = Crash("index out of range") /\ stack' = stack /\ UNCHANGED maps
               ELSE /\ ctrl' = Call(g.expr.l[idx + 1], g.env)
                    /\ stack' = Strict(Append(Base, [g EXCEPT !.idx = idx, !.pc = "value",
                                                              !.key = literal(g.expr.l[idx])]),
                                       g.expr.l[idx + 1])
                    /\ UNCHANGED maps
       IN  IF Calling THEN pair(fr, 2)
           ELSE IF ctrl.m = "err" THEN ctrl' = ctrl /\ stack' = Pop /\ UNCHANGED maps
           ELSE pair([fr EXCEPT !.elements = Bind(@, fr.key, ctrl.val)], fr.idx + 2)
    /\ UNCHANGED <<pid, program, topIdx, envs, arrays, lastValue, output>>

(* evalMap: for every pair eval the key (it must be a String), then the    *)
(* value, and store it under the key; return a Map over a new Go map.      *)
evalMap ==
    /\ Entering("evalMap") \/ Returning("evalMap")
    /\ LET fr == IF Calling
                 THEN [f |-> "evalMap", expr |-> ctrl.expr, env |-> CurEnv, idx |-> 0,
                       pc |-> "value", key |-> "", elements |-> EmptyRecord]
                 ELSE Top
           pair(g, idx) ==
               IF idx > Len(g.expr.l)
               THEN /\ maps' = Append(maps, g.elements)
                    /\ ctrl' = Ret(Map(Len(maps) + 1))
                    /\ stack' = Base
               ELSE IF idx + 1 > Len(g.expr.l)
               THEN ctrl' = Crash("index out of range") /\ stack' = stack /\ UNCHANGED maps
               ELSE /\ ctrl' = Call(g.expr.l[idx], g.env)
                    /\ stack' = Strict(Append(Base, [g EXCEPT !.idx = idx, !.pc = "key"]),
                                       g.expr.l[idx])
                    /\ UNCHANGED maps
       IN  IF Calling THEN pair(fr, 2)
           ELSE IF ctrl.m = "err" THEN ctrl' = ctrl /\ stack' = Pop /\ UNCHANGED maps
           ELSE IF fr.pc = "value"
                THEN pair([fr EXCEPT !.elements = Bind(@, fr.key, ctrl.val)], fr.idx + 2)
           ELSE IF ctrl.val = GoNil
                THEN ctrl' = Crash("nil pointer dereference") /\ stack' = stack /\ UNCHANGED maps
           ELSE IF ctrl.val.t # "STRING"
                THEN /\ ctrl' = Fail(error("invalid map key type: expected string, got "
                                           \o ctrl.val.t, "", fr.expr.l[fr.idx].loc))
                     /\ stack' = Pop
                     /\ UNCHANGED maps
           ELSE /\ ctrl' = Call(fr.expr.l[fr.idx + 1], fr.env)
                /\ stack' = Strict(Append(Pop, [fr EXCEPT !.pc = "value", !.key = ctrl.val.s]),
                                   fr.expr.l[fr.idx + 1])
                /\ UNCHANGED maps
    /\ UNCHANGED <<pid, program, topIdx, envs, arrays, lastValue, output>>

(* An evalFunctionArguments that starts with the last argument. *)
evalFunctionArgumentsReversed ==
    /\ ctrl.m = "args" \/ Returning("evalFunctionArguments")
    /\ LET fr == IF ctrl.m = "args"
                 THEN [f |-> "evalFunctionArguments", exprArgs |-> ctrl.exprArgs,
                       env |-> ctrl.env, idx |-> Len(ctrl.exprArgs) + 1, results |-> <<>>]
                 ELSE [Top EXCEPT !.results = IF ctrl.m = "ret" THEN <<ctrl.val>> \o @ ELSE @]
           below == IF ctrl.m = "args" THEN stack ELSE Pop
           next == fr.idx - 1
       IN  IF ctrl.m = "err" THEN ctrl' = ctrl /\ stack' = Pop
           ELSE IF next < 1
                THEN ctrl' = Ret(Values(fr.results)) /\ stack' = below
           ELSE /\ ctrl' = Call(fr.exprArgs[next], fr.env)
                /\ stack' = Strict(Append(below, [fr EXCEPT !.idx = next]), fr.exprArgs[next])
    /\ UNCHANGED <<pid, program, topIdx, envs, arrays, maps, lastValue, output>>

(* evalFunctionArguments: eval the argument expressions left to right. *)
evalFunctionArguments ==
    /\ ctrl.m = "args" \/ Returning("evalFunctionArguments")
    /\ LET fr == IF ctrl.m = "args"
                 THEN [f |-> "evalFunctionArguments", exprArgs |-> ctrl.exprArgs,
                       env |-> ctrl.env, idx |-> 0, results |-> <<>>]
                 ELSE [Top EXCEPT !.results = IF ctrl.m = "ret" THEN Append(@, ctrl.val) ELSE @]
           below == IF ctrl.m = "args" THEN stack ELSE Pop
           next == fr.idx + 1
       IN  IF ctrl.m = "err" THEN ctrl' = ctrl /\ stack' = Pop
           ELSE IF next > Len(fr.exprArgs)
                THEN ctrl' = Ret(Values(fr.results)) /\ stack' = below
           ELSE /\ ctrl' = Call(fr.exprArgs[next], fr.env)
                /\ stack' = Strict(Append(below, [fr EXCEPT !.idx = next]), fr.exprArgs[next])
    /\ UNCHANGED <<pid, program, topIdx, envs, arrays, maps, lastValue, output>>

(* A binding loop that pairs the parameters with the arguments from the    *)
(* wrong end.                                                              *)
ActivationRecordReversed(params, currentArgs) ==
    [n \in {params[j].s : j \in 1..Len(params)} |->
        currentArgs[Len(currentArgs) + 1 -
                    CHOOSE j \in 1..Len(params) :
                        /\ params[j].s = n
                        /\ \A h \in (j + 1)..Len(params) : params[h].s # n]]

(* The activation record of evalCallFunction: parameter j is bound to      *)
(* currentArgs[j] (a later parameter of the same name overwrites).         *)
ActivationRecord(params, currentArgs) ==
    [n \in {params[j].s : j \in 1..Len(params)} |->
        currentArgs[CHOOSE j \in 1..Len(params) :
                        /\ params[j].s = n
                        /\ \A h \in (j + 1)..Len(params) : params[h].s # n]]

(* A turn of the loop that calls itself instead of looping: the frame of   *)
(* the previous turn stays on the stack.                                   *)
TrampolineNested(fr, fn, currentArgs) ==
    IF Len(fn.params.l) > Len(currentArgs)
    THEN /\ ctrl' = Crash("index out of range")
         /\ stack' = stack
         /\ UNCHANGED envs
    ELSE /\ envs' = Append(envs, NewEnvironment(ActivationRecord(fn.params.l, currentArgs),
                                                fn.env))
         /\ ctrl' = Call(fn.body, Len(envs) + 1)
         /\ stack' = IF fr.pc = "body"
                     THEN Append(stack, [fr EXCEPT !.args = currentArgs])
                     ELSE Append(Pop, [fr EXCEPT !.pc = "body", !.fn = fn,
                                                 !.args = currentArgs])

(* A turn that hangs the activation environment under the environment of   *)
(* the call expression.                                                    *)
TrampolineDynamic(fr, fn, currentArgs) ==
    IF Len(fn.params.l) > Len(currentArgs)
    THEN /\ ctrl' = Crash("index out of range")
         /\ stack' = stack
         /\ UNCHANGED envs
    ELSE /\ envs' = Append(envs, NewEnvironment(ActivationRecord(fn.params.l, currentArgs),
                                                fr.env))
         /\ ctrl' = Call(fn.body, Len(envs) + 1)
         /\ stack' = Append(Pop, [fr EXCEPT !.pc = "body", !.fn = fn, !.args = currentArgs])

(* A turn that, after a recur, binds the parameters again in the           *)
(* activation environment of the turn before.                              *)
TrampolineRebinding(fr, fn, currentArgs) ==
    IF Len(fn.params.l) > Len(currentArgs)
    THEN /\ ctrl' = Crash("index out of range")
         /\ stack' = stack
         /\ UNCHANGED envs
    ELSE LET record == ActivationRecord(fn.params.l, currentArgs)
             last == CHOOSE e \in 1..Len(envs) :
                         /\ envs[e].parent = fn.env
                         /\ DOMAIN record \subseteq DOMAIN envs[e].record
                         /\ \A h \in (e + 1)..Len(envs) :
                                ~ /\ envs[h].parent = fn.env
                                  /\ DOMAIN record \subseteq DOMAIN envs[h].record
         IN  IF fr.pc = "body"
             THEN /\ envs' = [envs EXCEPT ![last].record =
                                  [n \in DOMAIN @ |-> IF n \in DOMAIN record
                                                       THEN record[n] ELSE @[n]]]
                  /\ ctrl' = Call(fn.body, last)
                  /\ stack' = Append(Pop, [fr EXCEPT !.args = currentArgs])
             ELSE /\ envs' = Append(envs, NewEnvironment(record, fn.env))
                  /\ ctrl' = Call(fn.body, Len(envs) + 1)
                  /\ stack' = Append(Pop, [fr EXCEPT !.pc = "body", !.fn = fn,
                                                      !.args = currentArgs])

(* One turn of the trampoline loop of evalCallFunction: bind the           *)
(* parameters in a new environment under the closure's environment and     *)
(* evaluate the body in tail position.  currentArgs[pidx] is not guarded.  *)
Trampoline(fr, fn, currentArgs) ==
    IF Len(fn.params.l) > Len(currentArgs)
    THEN /\ ctrl' = Crash("index out of range")
         /\ stack' = stack
         /\ UNCHANGED envs
    ELSE /\ envs' = Append(envs, NewEnvironment(ActivationRecord(fn.params.l, currentArgs),
                                                fn.env))
         /\ ctrl' = Call(fn.body, Len(envs) + 1)
         /\ stack' = Append(Pop, [fr EXCEPT !.pc = "body", !.fn = fn, !.args = currentArgs])

(* A callee that is handed to the evaluation of the arguments unchecked. *)
CalleeUnchecked(fr, v) ==
    /\ ctrl' = [m |-> "args", exprArgs |-> Tail(fr.expr.l), env |-> fr.env]
    /\ stack' = Append(Pop, [fr EXCEPT !.pc = "args", !.fn = v])

(* The callee of evalCallFunction has its value: it must be a native or a  *)
(* closure, and then the arguments are evaluated.                          *)
Callee(fr, v) ==
    IF v = GoNil
    THEN ctrl' = Crash("nil pointer dereference") /\ stack' = stack
    ELSE IF v.t \notin {"NATIVE_FUNC", "FUNC"}
    THEN /\ ctrl' = Fail(error("expression is not a function", "", fr.expr.l[1].loc))
         /\ stack' = Pop
    ELSE /\ ctrl' = [m |-> "args", exprArgs |-> Tail(fr.expr.l), env |-> fr.env]
         /\ stack' = Append(Pop, [fr EXCEPT !.pc = "args", !.fn = v])

(* evalCallFunction: eval the callee, then the arguments; call the native, *)
(* or run the closure's body until its result is not a recur marker.       *)
evalCallFunction ==
    /\ Entering("evalCallFunction") \/ Returning("evalCallFunction")
    /\ IF Calling
       THEN /\ ctrl' = Call(ctrl.expr.l[1], CurEnv)
            /\ stack' = Strict(Append(stack, [f |-> "evalCallFunction", expr |-> ctrl.expr,
                                              env |-> CurEnv, pc |-> "callee",
                                              fn |-> GoNil, args |-> <<>>]), ctrl.expr.l[1])
            /\ UNCHANGED <<envs, arrays, maps, output>>
       ELSE IF ctrl.m = "err"
            THEN ctrl' = ctrl /\ stack' = Pop /\ UNCHANGED <<envs, arrays, maps, output>>
       ELSE IF Top.pc = "callee"
            THEN Callee(Top, ctrl.val) /\ UNCHANGED <<envs, arrays, maps, output>>
       ELSE IF Top.pc = "args"
            THEN IF Top.fn.t = "NATIVE_FUNC"
                 THEN \E spare \in 0..MaxSpare,
                         order \in IF /\ Top.fn.name \in {"map:keys", "map:values"}
                                      /\ Len(ctrl.val.vs) = 1
                                      /\ ctrl.val.vs[1] # GoNil
                                      /\ ctrl.val.vs[1].t = "MAP"
                                   THEN Orders(DOMAIN maps[ctrl.val.vs[1].ref])
                                   ELSE {<<>>} :
                      LET r == NativeEffect(Top.fn.name, arrays, maps, ctrl.val.vs, spare,
                                            order)
                      IN  /\ ctrl' = CASE r.k = "panic" -> Crash(r.err.msg)
                                       [] r.k = "err" -> Fail(error(r.err.msg, r.err.arg,
                                                                    Top.expr.loc))
                                       [] r.k = "ok" -> Ret(r.value)
                          /\ stack' = IF r.k = "panic" THEN stack ELSE Pop
                          /\ output' = IF Top.fn.name = "print"
                                       THEN Append(output, ctrl.val.vs) ELSE output
                          /\ arrays' = r.arrays
                          /\ maps' = r.maps
                          /\ UNCHANGED envs
                 ELSE Trampoline(Top, Top.fn, ctrl.val.vs) /\ UNCHANGED <<arrays, maps, output>>
       ELSE IF ctrl.val = GoNil
            THEN /\ ctrl' = Crash("nil pointer dereference")
                 /\ stack' = stack
                 /\ UNCHANGED <<envs, arrays, maps, output>>
       ELSE IF ctrl.val.t = "RECUR"
            THEN Trampoline(Top, Top.fn, ctrl.val.args) /\ UNCHANGED <<arrays, maps, output>>
       ELSE ctrl' = ctrl /\ stack' = Pop /\ UNCHANGED <<envs, arrays, maps, output>>
    /\ UNCHANGED <<pid, program, topIdx, lastValue>>

----------------------------------------------------------------------------
(* The parser (pkg/parser): syntactic sugar and syntax analysis, applied   *)
(* to every list once its elements are parsed.  A result is Ok(expr) or    *)
(* Err(error).                                                             *)

(* A forToWhile that runs the increment before the body. *)
forToWhileIncFirst(expr) ==
    IF Len(expr.l) # 5 THEN Err(Errorf("invalid for expression", ""))
    ELSE Ok(ListExpr(<<SymbolExpr("begin"), expr.l[2],
                       ListExpr(<<SymbolExpr("while"), expr.l[3],
                                  ListExpr(<<SymbolExpr("begin"), expr.l[4],
                                             expr.l[5]>>)>>)>>))

(* forToWhile: (for init cond inc body) becomes                            *)
(* (begin init (while cond (begin body inc))).                             *)
forToWhile(expr) ==
    IF Len(expr.l) # 5 THEN Err(Errorf("invalid for expression", ""))
    ELSE Ok(ListExpr(<<SymbolExpr("begin"), expr.l[2],
                       ListExpr(<<SymbolExpr("while"), expr.l[3],
                                  ListExpr(<<SymbolExpr("begin"), expr.l[5],
                                             expr.l[4]>>)>>)>>))

(* The nested if that switchToIf builds from the last case backwards. *)
RECURSIVE NestedIf(_, _, _)
NestedIf(cases, i, result) ==
    IF i = 0 THEN Ok(result)
    ELSE IF cases[i].k # "list" \/ Len(cases[i].l) # 2
    THEN Err(Errorf("invalid case expression", ""))
    ELSE NestedIf(cases, i - 1,
                  ListExpr(<<SymbolExpr("if"), cases[i].l[1], cases[i].l[2], result>>))

(* switchToIf: the last case must be (default x); every other case (c v)   *)
(* wraps the result so far in (if c v result).                             *)
switchToIf(expr) ==
    LET cases == Tail(expr.l)
        defaultCase == cases[Len(cases)]
    IN  IF Len(expr.l) < 3 THEN Err(Errorf("invalid switch expression", ""))
        ELSE IF defaultCase.k # "list" \/ Len(defaultCase.l) # 2
        THEN Err(Errorf("invalid default case", ""))
        ELSE IF ~IsSymbol(defaultCase.l[1], "default")
        THEN Err(Errorf("invalid default case symbol", ""))
        ELSE NestedIf(cases, Len(cases) - 1, defaultCase.l[2])

(* SyntaxSugar.Transform: by the symbol at the head of a list. *)
Transform(expr) ==
    IF expr.k # "list" \/ Len(expr.l) = 0 \/ expr.l[1].k # "sym" THEN Ok(expr)
    ELSE CASE expr.l[1].s = "def" ->
                 IF Len(expr.l) # 4 THEN Err(Errorf("invalid def expression", ""))
                 ELSE Ok(defToVar(expr.l[2], expr.l[3], expr.l[4]))
           [] expr.l[1].s = "switch" -> switchToIf(expr)
           [] expr.l[1].s = "for" -> forToWhile(expr)
           [] OTHER -> Ok(expr)

(* SyntaxAnalyzer.Validate: the head of a list must be a symbol or a list, *)
(* and the forms and natives the analyzer knows must have their shape.     *)
Validate(expr) ==
    LET n == Len(expr.l)
        head == expr.l[1]
        bad(msg) == Err(Errorf(msg, ""))
    IN  IF expr.k # "list" \/ n = 0 THEN Ok(expr)
        ELSE IF head.k \notin {"sym", "list"} THEN bad("expected symbol or list")
        ELSE IF head.k # "sym" THEN Ok(expr)
        ELSE CASE head.s \in {"+", "and", "or"} /\ n < 3 ->
                     bad("expected at least two operands")
               [] head.s = "-" /\ n < 2 -> bad("expected at least one operand")
               [] head.s = "*" /\ n < 3 -> bad("expected at least two operands")
               [] head.s \in {"=", "<", ">"} /\ n # 3 ->
                     bad("expected exactly two operands")
               [] head.s = "not" /\ n # 2 -> bad("expected exactly one operand")
               [] head.s = "include" /\ (n # 2 \/ expr.l[2].k # "str") ->
                     bad("invalid include")
               [] head.s \in {"begin", "print"} /\ n < 2 ->
                     bad("expected at least one expression")
               [] head.s \in {"var", "set"} /\ (n # 3 \/ expr.l[2].k # "sym") ->
                     bad("invalid " \o head.s)
               [] head.s = "if" /\ (n < 3 \/ n > 4) -> bad("invalid if format")
               [] head.s = "while" /\ n # 3 -> bad("invalid while format")
               [] head.s = "lambda"
                  /\ (n # 3 \/ expr.l[2].k # "list"
                      \/ \E j \in 1..Len(expr.l[2].l) : expr.l[2].l[j].k # "sym") ->
                     bad("invalid lambda")
               [] head.s = "map" /\ n % 2 # 1 -> bad("invalid map format")
               [] OTHER -> Ok(expr)

(* parseExpression / parseList: an atom as it is; a list by parsing its    *)
(* elements, then Transform, then Validate of what Transform left.         *)
RECURSIVE parseExpression(_)
parseExpression(source) ==
    IF source.k # "list" THEN Ok(source)
    ELSE LET exprs == [j \in 1..Len(source.l) |-> parseExpression(source.l[j])]
             listExpr == Transform(ListExpr([j \in 1..Len(exprs) |-> exprs[j].value]))
         IN  IF FirstFailed(exprs).k # "ok" THEN FirstFailed(exprs)
             ELSE IF listExpr.k # "ok" THEN listExpr
             ELSE IF Validate(listExpr.value).k # "ok" THEN Validate(listExpr.value)
             ELSE listExpr

(* Parser.Parse / parseProgram: every top-level expression in turn. *)
Parse(source) ==
    LET prog == [j \in 1..Len(source) |-> parseExpression(source[j])]
    IN  IF FirstFailed(prog).k # "ok" THEN FirstFailed(prog)
        ELSE Ok([j \in 1..Len(prog) |-> prog[j].value])

----------------------------------------------------------------------------
(* The programs the interpreter is run on: what the parser hands over for  *)
(* the sources quoted in the comments.                                     *)

S(s) == SymbolExpr(s)
N(n) == NumberExpr(n)
L(l) == ListExpr(l)

(* Parameters p1..pk and arguments 1..k. *)
ParamNames == <<"p1", "p2", "p3", "p4">>
Params(k) == L([j \in 1..k |-> S(ParamNames[j])])
Numbers(k) == [j \in 1..k |-> N(j)]

(* (def fact (n acc) (if (= n 0) acc (recur (- n 1) ( * acc n)))) (fact a 1) *)
FactProgram(a) ==
    << defToVar(S("fact"), L(<<S("n"), S("acc")>>),
                L(<<S("if"), L(<<S("="), S("n"), N(0)>>), S("acc"),
                    L(<<S("recur"), L(<<S("-"), S("n"), N(1)>>),
                        L(<<S("*"), S("acc"), S("n")>>)>>)>>)),
       L(<<S("fact"), N(a), N(1)>>) >>

(* (def sum (n acc) (if (= n 0) acc (recur (- n 1) (+ acc n)))) (sum a 0) *)
SumWithTCOProgram(a) ==
    << defToVar(S("sum"), L(<<S("n"), S("acc")>>),
                L(<<S("if"), L(<<S("="), S("n"), N(0)>>), S("acc"),
                    L(<<S("recur"), L(<<S("-"), S("n"), N(1)>>),
                        L(<<S("+"), S("acc"), S("n")>>)>>)>>)),
       L(<<S("sum"), N(a), N(0)>>) >>

(* (def sum (n) (if (= n 0) 0 (+ n (sum (- n 1))))) (sum a) *)
SumProgram(a) ==
    << defToVar(S("sum"), L(<<S("n")>>),
                L(<<S("if"), L(<<S("="), S("n"), N(0)>>), N(0),
                    L(<<S("+"), S("n"),
                        L(<<S("sum"), L(<<S("-"), S("n"), N(1)>>)>>)>>)>>)),
       L(<<S("sum"), N(a)>>) >>

(* An expression with (recur 1) in the strict position number a. *)
Recur1 == L(<<S("recur"), N(1)>>)
StrictContext(a) ==
    CASE a = 1 -> L(<<S("var"), S("v"), Recur1>>)
      [] a = 2 -> L(<<S("set"), S("x"), Recur1>>)
      [] a = 3 -> L(<<S("if"), Recur1, N(1), N(2)>>)
      [] a = 4 -> L(<<S("print"), N(0), Recur1>>)
      [] a = 5 -> L(<<S("vector"), N(1), Recur1>>)
      [] a = 6 -> L(<<S("map"), StringExpr("k"), Recur1>>)
      [] a = 7 -> L(<<S("begin"), Recur1, N(1)>>)
      [] a = 8 -> L(<<S("while"), Recur1, N(1)>>)
      [] a = 9 -> L(<<S("while"), BoolExpr(TRUE), Recur1>>)
      [] a = 10 -> L(<<S("and"), BoolExpr(TRUE), Recur1>>)
      [] a = 11 -> L(<<Recur1, N(1)>>)
      [] a = 12 -> L(<<S("recur"), Recur1>>)
      [] a = 13 -> L(<<S("map"), Recur1, N(1)>>)
      [] a = 14 -> L(<<S("or"), Recur1, BoolExpr(TRUE)>>)
NumStrictContexts == 14

(* b = 0: (var x 0) <context a>                                            *)
(* b = 1: (var x 0) (var f (lambda (y) <context a>)) (f 1)                 *)
(* b = 2: (var x 0) (recur 1)           the marker at the top level        *)
(* b = 3: (var x 0) (begin (if true (recur 1)))    ... through tail forms  *)
(* b = 4: (var f (lambda (y) (begin (if (= y 0) 5 (recur 0))))) (f a)      *)
StrictProgram(a, b) ==
    CASE b = 0 -> << L(<<S("var"), S("x"), N(0)>>), StrictContext(a) >>
      [] b = 1 -> << L(<<S("var"), S("x"), N(0)>>),
                     L(<<S("var"), S("f"), L(<<S("lambda"), L(<<S("y")>>), StrictContext(a)>>)>>),
                     L(<<S("f"), N(1)>>) >>
      [] b = 2 -> << L(<<S("var"), S("x"), N(0)>>), Recur1 >>
      [] b = 3 -> << L(<<S("var"), S("x"), N(0)>>),
                     L(<<S("begin"), L(<<S("if"), BoolExpr(TRUE), Recur1>>)>>) >>
      [] b = 4 -> << L(<<S("var"), S("f"),
                         L(<<S("lambda"), L(<<S("y")>>),
                             L(<<S("begin"),
                                 L(<<S("if"), L(<<S("="), S("y"), N(0)>>), N(5),
                                     L(<<S("recur"), N(0)>>)>>)>>)>>)>>),
                     L(<<S("f"), N(a)>>) >>

(* A closure of a parameters called with b arguments.                      *)
(* c = 0: ((lambda (p1..pa) (vector p1..pa)) 1..b)                         *)
(* c = 1: (var go true)                                                    *)
(*        (var f (lambda (p1..pa)                                          *)
(*                 (if go (begin (set go false) (recur 1..b))              *)
(*                        (vector p1..pa))))                               *)
(*        (f 1..a)                                                         *)
ArityBody(a) == L(<<S("vector")>> \o Params(a).l)
ArityProgram(a, b, c) ==
    IF c = 0
    THEN << L(<<L(<<S("lambda"), Params(a), ArityBody(a)>>)>> \o Numbers(b)) >>
    ELSE << L(<<S("var"), S("go"), BoolExpr(TRUE)>>),
            L(<<S("var"), S("f"),
                L(<<S("lambda"), Params(a),
                    L(<<S("if"), S("go"),
                        L(<<S("begin"), L(<<S("set"), S("go"), BoolExpr(FALSE)>>),
                            L(<<S("recur")>> \o Numbers(b))>>),
                        ArityBody(a)>>)>>)>>),
            L(<<S("f")>> \o Numbers(a)) >>

(* The statements the scope programs are made of. *)
ScopeStmt(a) ==
    CASE a = 1 -> L(<<S("var"), S("x"), N(1)>>)
      [] a = 2 -> L(<<S("var"), S("x"), N(2)>>)
      [] a = 3 -> L(<<S("set"), S("x"), N(3)>>)
      [] a = 4 -> L(<<S("var"), S("print"), N(4)>>)
      [] a = 5 -> L(<<S("set"), S("print"), N(5)>>)
      [] a = 6 -> L(<<S("var"), S("z"), N(6)>>)
NumScopeStmts == 6

(* <stmt a> (begin <stmt b> (begin <stmt c> x) x) x <stmt c> x print *)
ScopeProgram(a, b, c) ==
    << ScopeStmt(a),
       L(<<S("begin"), ScopeStmt(b), L(<<S("begin"), ScopeStmt(c), S("x")>>), S("x")>>),
       S("x"),
       ScopeStmt(c),
       S("x"),
       S("print") >>

(* Names of natives bound by `var` and by a lambda parameter.              *)
(* a = 1: (begin (var + 5) +) (+ 1 2)                                      *)
(* a = 2: ((lambda (print) print) 7) print                                 *)
(* a = 3: (var f (lambda (+) (+ 1 2))) (f -) (+ 1 2)                       *)
(* a = 4: (var not 1) not (not true)                                       *)
(* a = 5: nosuch                                                           *)
ShadowProgram(a) ==
    CASE a = 1 -> << L(<<S("begin"), L(<<S("var"), S("+"), N(5)>>), S("+")>>),
                     L(<<S("+"), N(1), N(2)>>) >>
      [] a = 2 -> << L(<<L(<<S("lambda"), L(<<S("print")>>), S("print")>>), N(7)>>),
                     S("print") >>
      [] a = 3 -> << L(<<S("var"), S("f"),
                         L(<<S("lambda"), L(<<S("+")>>), L(<<S("+"), N(1), N(2)>>)>>)>>),
                     L(<<S("f"), S("-")>>),
                     L(<<S("+"), N(1), N(2)>>) >>
      [] a = 4 -> << L(<<S("var"), S("not"), N(1)>>),
                     S("not"),
                     L(<<S("not"), BoolExpr(TRUE)>>) >>
      [] a = 5 -> << S("nosuch") >>

(* Closures and the environment they were created in.                      *)
(* a = 1: (var make (lambda () (begin (var c 0)                            *)
(*                                    (lambda () (set c (+ c 1))))))       *)
(*        (var inc (make)) (inc) (inc)                                     *)
(* a = 2: (var x 1) (var f (lambda () x)) (set x 2) (f)                    *)
(* a = 3: (var f (lambda () y)) (var y 3) (f)                              *)
(* a = 4: (var inc 0) (var get 0)                                          *)
(*        (begin (var c 0) (set inc (lambda () (set c (+ c 1))))           *)
(*               (set get (lambda () c)))                                  *)
(*        (inc) (inc) (get)                                                *)
(* a = 5: (var x 1) (var f (lambda () (set x 5))) (f) x                    *)
ClosureProgram(a) ==
    CASE a = 1 -> << L(<<S("var"), S("make"),
                         L(<<S("lambda"), L(<<>>),
                             L(<<S("begin"), L(<<S("var"), S("c"), N(0)>>),
                                 L(<<S("lambda"), L(<<>>),
                                     L(<<S("set"), S("c"),
                                         L(<<S("+"), S("c"), N(1)>>)>>)>>)>>)>>)>>),
                     L(<<S("var"), S("inc"), L(<<S("make")>>)>>),
                     L(<<S("inc")>>),
                     L(<<S("inc")>>) >>
      [] a = 2 -> << L(<<S("var"), S("x"), N(1)>>),
                     L(<<S("var"), S("f"), L(<<S("lambda"), L(<<>>), S("x")>>)>>),
                     L(<<S("set"), S("x"), N(2)>>),
                     L(<<S("f")>>) >>
      [] a = 3 -> << L(<<S("var"), S("f"), L(<<S("lambda"), L(<<>>), S("y")>>)>>),
                     L(<<S("var"), S("y"), N(3)>>),
                     L(<<S("f")>>) >>
      [] a = 4 -> << L(<<S("var"), S("inc"), N(0)>>),
                     L(<<S("var"), S("get"), N(0)>>),
                     L(<<S("begin"), L(<<S("var"), S("c"), N(0)>>),
                         L(<<S("set"), S("inc"),
                             L(<<S("lambda"), L(<<>>),
                                 L(<<S("set"), S("c"), L(<<S("+"), S("c"), N(1)>>)>>)>>)>>),
                         L(<<S("set"), S("get"), L(<<S("lambda"), L(<<>>), S("c")>>)>>)>>),
                     L(<<S("inc")>>),
                     L(<<S("inc")>>),
                     L(<<S("get")>>) >>
      [] a = 5 -> << L(<<S("var"), S("x"), N(1)>>),
                     L(<<S("var"), S("f"),
                         L(<<S("lambda"), L(<<>>), L(<<S("set"), S("x"), N(5)>>)>>)>>),
                     L(<<S("f")>>),
                     S("x") >>

(* Definition-site and call-site bindings of the same name.                *)
(* a = 1: (var x 1) (var f (lambda () x)) (begin (var x 2) (f))            *)
(* a = 2: (var x 1) ((lambda (x) x) 5) x                                   *)
(* a = 3: (var x 1) (var f (lambda () x)) (var g (lambda (x) (f))) (g 2)   *)
(* a = 4: (var g (lambda (x) (lambda () x))) (var h (g 1))                 *)
(*        (var k (lambda (x) (h))) (k 2)                                   *)
LexicalProgram(a) ==
    CASE a = 1 -> << L(<<S("var"), S("x"), N(1)>>),
                     L(<<S("var"), S("f"), L(<<S("lambda"), L(<<>>), S("x")>>)>>),
                     L(<<S("begin"), L(<<S("var"), S("x"), N(2)>>), L(<<S("f")>>)>>) >>
      [] a = 2 -> << L(<<S("var"), S("x"), N(1)>>),
                     L(<<L(<<S("lambda"), L(<<S("x")>>), S("x")>>), N(5)>>),
                     S("x") >>
      [] a = 3 -> << L(<<S("var"), S("x"), N(1)>>),
                     L(<<S("var"), S("f"), L(<<S("lambda"), L(<<>>), S("x")>>)>>),
                     L(<<S("var"), S("g"), L(<<S("lambda"), L(<<S("x")>>), L(<<S("f")>>)>>)>>),
                     L(<<S("g"), N(2)>>) >>
      [] a = 4 -> << L(<<S("var"), S("g"),
                         L(<<S("lambda"), L(<<S("x")>>),
                             L(<<S("lambda"), L(<<>>), S("x")>>)>>)>>),
                     L(<<S("var"), S("h"), L(<<S("g"), N(1)>>)>>),
                     L(<<S("var"), S("k"), L(<<S("lambda"), L(<<S("x")>>), L(<<S("h")>>)>>)>>),
                     L(<<S("k"), N(2)>>) >>

(* Blocks and the bindings of the scopes around them.                      *)
(* a = 1: (begin (var x 1) (begin (var x 2) x))                            *)
(* a = 2: (begin (var x 1) (begin (var x 2) x) x)                          *)
(* a = 3: (var x 1) (begin (var x 2) (set x 3) x) x                        *)
(* a = 4: (var x 1) (var f (lambda () (var x 9)))                          *)
(*        (begin (f) (var y 2) (set x 4)) x y                              *)
BlockProgram(a) ==
    CASE a = 1 -> << L(<<S("begin"), L(<<S("var"), S("x"), N(1)>>),
                         L(<<S("begin"), L(<<S("var"), S("x"), N(2)>>), S("x")>>)>>) >>
      [] a = 2 -> << L(<<S("begin"), L(<<S("var"), S("x"), N(1)>>),
                         L(<<S("begin"), L(<<S("var"), S("x"), N(2)>>), S("x")>>),
                         S("x")>>) >>
      [] a = 3 -> << L(<<S("var"), S("x"), N(1)>>),
                     L(<<S("begin"), L(<<S("var"), S("x"), N(2)>>),
                         L(<<S("set"), S("x"), N(3)>>), S("x")>>),
                     S("x") >>
      [] a = 4 -> << L(<<S("var"), S("x"), N(1)>>),
                     L(<<S("var"), S("f"),
                         L(<<S("lambda"), L(<<>>), L(<<S("var"), S("x"), N(9)>>)>>)>>),
                     L(<<S("begin"), L(<<S("f")>>), L(<<S("var"), S("y"), N(2)>>),
                         L(<<S("set"), S("x"), N(4)>>)>>),
                     S("x"),
                     S("y") >>

(* The remaining forms.                                                    *)
(* a = 1: (var i 0) (while (< i 2) (set i (+ i 1))) (and true (or false true)) *)
(*        (vector 1 i) (map "a" 1 "b" i) () (include "f")                  *)
(* a = 2: (if (> 1 2) "yes") (if 1 2 3)                                    *)
(* a = 3: (1 2 3)                                                          *)
(* a = 4: (or false 1)                                                     *)
(* a = 5: (while 1 2)                                                      *)
(* a = 6: (map 1 2)                                                        *)
(* a = 7: (+ 1 true)                                                       *)
(* a = 8: (is-nil nil) (print "a" 1)                                       *)
FormsProgram(a) ==
    CASE a = 1 -> << L(<<S("var"), S("i"), N(0)>>),
                     L(<<S("while"), L(<<S("<"), S("i"), N(2)>>),
                         L(<<S("set"), S("i"), L(<<S("+"), S("i"), N(1)>>)>>)>>),
                     L(<<S("and"), BoolExpr(TRUE),
                         L(<<S("or"), BoolExpr(FALSE), BoolExpr(TRUE)>>)>>),
                     L(<<S("vector"), N(1), S("i")>>),
                     L(<<S("map"), StringExpr("a"), N(1), StringExpr("b"), S("i")>>),
                     L(<<>>),
                     L(<<S("include"), StringExpr("f")>>) >>
      [] a = 2 -> << L(<<S("if"), L(<<S(">"), N(1), N(2)>>), StringExpr("yes")>>),
                     L(<<S("if"), N(1), N(2), N(3)>>) >>
      [] a = 3 -> << L(<<N(1), N(2), N(3)>>) >>
      [] a = 4 -> << L(<<S("or"), BoolExpr(FALSE), N(1)>>) >>
      [] a = 5 -> << L(<<S("while"), N(1), N(2)>>) >>
      [] a = 6 -> << L(<<S("map"), N(1), N(2)>>) >>
      [] a = 7 -> << L(<<S("+"), N(1), BoolExpr(TRUE)>>) >>
      [] a = 8 -> << L(<<S("is-nil"), NilExpr>>),
                     L(<<S("print"), StringExpr("a"), N(1)>>) >>

(* An operand, argument or element that leaves a trace: (begin (print j) e) *)
Traced(j, e) == L(<<S("begin"), L(<<S("print"), N(j)>>), e>>)

(* (and o1 .. ob) for c = 0 and (or o1 .. ob) for c = 1, operand j being    *)
(* (begin (print j) v) with v false, true or 7 for digit j of a in base 3  *)
(* equal to 0, 1 or 2.                                                     *)
LogicOperand(a, j) ==
    Traced(j, CASE (a \div (3 ^ (j - 1))) % 3 = 0 -> BoolExpr(FALSE)
                [] (a \div (3 ^ (j - 1))) % 3 = 1 -> BoolExpr(TRUE)
                [] (a \div (3 ^ (j - 1))) % 3 = 2 -> N(7))
LogicProgram(a, b, c) ==
    << L(<<S(IF c = 0 THEN "and" ELSE "or")>> \o [j \in 1..b |-> LogicOperand(a, j)]) >>

(* Argument j of the order programs: (begin (print j) (set x (+ ( * x 10) j))) *)
OrderArg(j) ==
    Traced(j, L(<<S("set"), S("x"), L(<<S("+"), L(<<S("*"), S("x"), N(10)>>), N(j)>>)>>))
OrderArgs(b) == [j \in 1..b |-> OrderArg(j)]
OrderBody(b) == Traced(9, ArityBody(b))

(* (var x 0) and then, with the arguments a1 .. ab above,                   *)
(* a = 1: ((begin (print 0) print) a1 .. ab)                                *)
(* a = 2: ((begin (print 0) (lambda (p1 .. pb) (begin (print 9) (vector p1 .. pb)))) *)
(*         a1 .. ab)                                                        *)
(* a = 3: (vector a1 .. ab)                                                 *)
(* a = 4: (var go true)                                                     *)
(*        (var f (lambda (p1 .. pb)                                         *)
(*                 (if go (begin (set go false) (recur a1 .. ab))           *)
(*                        (begin (print 9) (vector p1 .. pb)))))            *)
(*        (f 0 .. 0)                                                        *)
OrderProgram(a, b) ==
    << L(<<S("var"), S("x"), N(0)>>) >> \o
    CASE a = 1 -> << L(<<Traced(0, S("print"))>> \o OrderArgs(b)) >>
      [] a = 2 -> << L(<<Traced(0, L(<<S("lambda"), Params(b), OrderBody(b)>>))>>
                       \o OrderArgs(b)) >>
      [] a = 3 -> << L(<<S("vector")>> \o OrderArgs(b)) >>
      [] a = 4 -> << L(<<S("var"), S("go"), BoolExpr(TRUE)>>),
                     L(<<S("var"), S("f"),
                         L(<<S("lambda"), Params(b),
                             L(<<S("if"), S("go"),
                                 L(<<S("begin"), L(<<S("set"), S("go"), BoolExpr(FALSE)>>),
                                     L(<<S("recur")>> \o OrderArgs(b))>>),
                                 OrderBody(b)>>)>>)>>),
                     L(<<S("f")>> \o [j \in 1..b |-> N(0)]) >>

(* Expressions whose value is not a function: 1 "s" true nil (vector)       *)
(* (map "k" 1).                                                            *)
NotFunction(a) ==
    CASE a = 1 -> N(1)
      [] a = 2 -> StringExpr("s")
      [] a = 3 -> BoolExpr(TRUE)
      [] a = 4 -> NilExpr
      [] a = 5 -> L(<<S("vector")>>)
      [] a = 6 -> L(<<S("map"), StringExpr("k"), N(1)>>)
NumNotFunctions == 6

(* b = 0: ((begin <a>) (print 1))                                          *)
(* b = 1: (var h <a>) (h (print 1))                                        *)
NotFunctionProgram(a, b) ==
    IF b = 0
    THEN << L(<<L(<<S("begin"), NotFunction(a)>>), L(<<S("print"), N(1)>>)>>) >>
    ELSE << L(<<S("var"), S("h"), NotFunction(a)>>),
            L(<<S("h"), L(<<S("print"), N(1)>>)>>) >>

(* Expressions that fail: nosuch  (+ 1 true)  (x 2)  (if 1 2 3) *)
Failing(b) ==
    CASE b = 1 -> S("nosuch")
      [] b = 2 -> L(<<S("+"), N(1), BoolExpr(TRUE)>>)
      [] b = 3 -> L(<<S("x"), N(2)>>)
      [] b = 4 -> L(<<S("if"), N(1), N(2), N(3)>>)
NumFailing == 4

(* (var x 0) and then, with E the failing expression b,                    *)
(* a = 1: (var y E)                                                        *)
(* a = 2: (set x E)                                                        *)
(* a = 3: (print (begin (print 1) 1) E (begin (print 3) 3))                *)
(* a = 4: ((lambda (p1 p2 p3) (print 9)) (begin (print 1) 1) E (begin (print 3) 3)) *)
(* a = 5: (vector (begin (print 1) 1) E (begin (print 3) 3))               *)
(* a = 6: (map "a" (begin (print 1) 1) "b" E "c" (begin (print 3) 3))      *)
(* a = 7: (begin (begin (print 1) 1) E (begin (print 3) 3))                *)
AbortProgram(a, b) ==
    << L(<<S("var"), S("x"), N(0)>>),
       CASE a = 1 -> L(<<S("var"), S("y"), Failing(b)>>)
         [] a = 2 -> L(<<S("set"), S("x"), Failing(b)>>)
         [] a = 3 -> L(<<S("print"), Traced(1, N(1)), Failing(b), Traced(3, N(3))>>)
         [] a = 4 -> L(<<L(<<S("lambda"), Params(3), L(<<S("print"), N(9)>>)>>),
                         Traced(1, N(1)), Failing(b), Traced(3, N(3))>>)
         [] a = 5 -> L(<<S("vector"), Traced(1, N(1)), Failing(b), Traced(3, N(3))>>)
         [] a = 6 -> L(<<S("map"), StringExpr("a"), Traced(1, N(1)),
                         StringExpr("b"), Failing(b), StringExpr("c"), Traced(3, N(3))>>)
         [] a = 7 -> L(<<S("begin"), Traced(1, N(1)), Failing(b), Traced(3, N(3))>>) >>
NumAbortPrograms == 7

Str(s) == StringExpr(s)
VarExpr(name, e) == L(<<S("var"), S(name), e>>)
CallExpr(name, args) == L(<<S(name)>> \o args)

(* (var v (vector 1 .. a)) (var w v) (var f (lambda () v)) (vec:push v 9)  *)
(* and then                                                                *)
(* b = 1: (vec:len v)                                                      *)
(* b = 2: (vec:get v a)                                                    *)
(* b = 3: (vec:get w a)                                                    *)
(* b = 4: (vec:get (f) a)                                                  *)
PushProgram(a, b) ==
    << VarExpr("v", CallExpr("vector", Numbers(a))),
       VarExpr("w", S("v")),
       VarExpr("f", L(<<S("lambda"), Params(0), S("v")>>)),
       CallExpr("vec:push", <<S("v"), N(9)>>),
       CASE b = 1 -> CallExpr("vec:len", <<S("v")>>)
         [] b = 2 -> CallExpr("vec:get", <<S("v"), N(a)>>)
         [] b = 3 -> CallExpr("vec:get", <<S("w"), N(a)>>)
         [] b = 4 -> CallExpr("vec:get", <<L(<<S("f")>>), N(a)>>) >>

(* a = 1: (var v (vector 1 2 3)) (var w v) (var r (vec:set w 1 9))         *)
(*        (print (vec:get v 1) (vec:get w 1) (vec:get r 1))                *)
(* a = 2: (var v (vector 1 2 3)) (var box (vector v))                      *)
(*        (vec:set (vec:get box 0) 1 9) (print (vec:get v 1))              *)
(* a = 3: (var v (vector 1 2 3)) (var f (lambda (p1) (vec:set p1 1 9)))    *)
(*        (f v) (print (vec:get v 1))                                      *)
(* a = 4: (var m (map "a" 1)) (var w m) (var r (map:set w "b" 2))          *)
(*        (print (map:get m "b") (map:get r "b"))                          *)
(* a = 5: (var m (map "a" 1 "b" 2)) (var w m) (var r (map:delete w "a"))   *)
(*        (print (map:get m "a") (map:get m "b"))                          *)
(* a = 6: (var m (map "a" 1)) (var w m) (var o (map "a" 5 "c" 3))          *)
(*        (var r (map:merge w o))                                          *)
(*        (print (map:get m "a") (map:get m "c") (map:get r "c") (map:get o "a")) *)
(* a = 7: (var m (map "a" 1)) (var box (vector m))                         *)
(*        (var f (lambda () (map:set m "a" 7))) (f)                        *)
(*        (print (map:get (vec:get box 0) "a"))                            *)
(* a = 8: (var v (vector 1 2 3)) (var s (vec:slice v 0 3)) (vec:set s 1 9) *)
(*        (print (vec:get v 1) (vec:get s 1))                              *)
(* a = 9: (var v (vector 1 2 3)) (var s (vec:slice v 0 3)) (vec:set v 1 9) *)
(*        (print (vec:get v 1) (vec:get s 1))                              *)
ShareProgram(a) ==
    LET get(v, j) == CallExpr("vec:get", <<v, N(j)>>)
        at(m, k) == CallExpr("map:get", <<m, Str(k)>>)
        v123 == VarExpr("v", CallExpr("vector", Numbers(3)))
        ma1 == VarExpr("m", CallExpr("map", <<Str("a"), N(1)>>))
    IN  CASE a = 1 -> << v123, VarExpr("w", S("v")),
                         VarExpr("r", CallExpr("vec:set", <<S("w"), N(1), N(9)>>)),
                         CallExpr("print", <<get(S("v"), 1), get(S("w"), 1), get(S("r"), 1)>>) >>
          [] a = 2 -> << v123, VarExpr("box", CallExpr("vector", <<S("v")>>)),
                         CallExpr("vec:set", <<get(S("box"), 0), N(1), N(9)>>),
                         CallExpr("print", <<get(S("v"), 1)>>) >>
          [] a = 3 -> << v123,
                         VarExpr("f", L(<<S("lambda"), Params(1),
                                          CallExpr("vec:set", <<S("p1"), N(1), N(9)>>)>>)),
                         CallExpr("f", <<S("v")>>),
                         CallExpr("print", <<get(S("v"), 1)>>) >>
          [] a = 4 -> << ma1, VarExpr("w", S("m")),
                         VarExpr("r", CallExpr("map:set", <<S("w"), Str("b"), N(2)>>)),
                         CallExpr("print", <<at(S("m"), "b"), at(S("r"), "b")>>) >>
          [] a = 5 -> << VarExpr("m", CallExpr("map", <<Str("a"), N(1), Str("b"), N(2)>>)),
                         VarExpr("w", S("m")),
                         VarExpr("r", CallExpr("map:delete", <<S("w"), Str("a")>>)),
                         CallExpr("print", <<at(S("m"), "a"), at(S("m"), "b")>>) >>
          [] a = 6 -> << ma1, VarExpr("w", S("m")),
                         VarExpr("o", CallExpr("map", <<Str("a"), N(5), Str("c"), N(3)>>)),
                         VarExpr("r", CallExpr("map:merge", <<S("w"), S("o")>>)),
                         CallExpr("print", <<at(S("m"), "a"), at(S("m"), "c"),
                                             at(S("r"), "c"), at(S("o"), "a")>>) >>
          [] a = 7 -> << ma1, VarExpr("box", CallExpr("vector", <<S("m")>>)),
                         VarExpr("f", L(<<S("lambda"), Params(0),
                                          CallExpr("map:set", <<S("m"), Str("a"), N(7)>>)>>)),
                         L(<<S("f")>>),
                         CallExpr("print", <<at(get(S("box"), 0), "a")>>) >>
          [] a = 8 -> << v123, VarExpr("s", CallExpr("vec:slice", <<S("v"), N(0), N(3)>>)),
                         CallExpr("vec:set", <<S("s"), N(1), N(9)>>),
                         CallExpr("print", <<get(S("v"), 1), get(S("s"), 1)>>) >>
          [] a = 9 -> << v123, VarExpr("s", CallExpr("vec:slice", <<S("v"), N(0), N(3)>>)),
                         CallExpr("vec:set", <<S("v"), N(1), N(9)>>),
                         CallExpr("print", <<get(S("v"), 1), get(S("s"), 1)>>) >>

(* Conditions: false  true  7  "s"  nil *)
Condition(a) ==
    CASE a = 0 -> BoolExpr(FALSE)
      [] a = 1 -> BoolExpr(TRUE)
      [] a = 2 -> N(7)
      [] a = 3 -> Str("s")
      [] a = 4 -> NilExpr
NumConditions == 5

(* b = 0: (if (begin (print 1) <a>) (begin (print 2) 20))                  *)
(* b = 1: (if (begin (print 1) <a>) (begin (print 2) 20) (begin (print 3) 30)) *)
(* b = 2, the branch taken first is a recur (then for a = 0, else for a = 1): *)
(*   a = 0: ((lambda (p1) (if (begin (print 1) (= p1 0)) (recur 1) (begin (print 3) 30))) 0) *)
(*   a = 1: ((lambda (p1) (if (begin (print 1) (= p1 1)) (begin (print 2) 20) (recur 1))) 0) *)
CondProgram(a, b) ==
    CASE b = 0 -> << L(<<S("if"), Traced(1, Condition(a)), Traced(2, N(20))>>) >>
      [] b = 1 -> << L(<<S("if"), Traced(1, Condition(a)), Traced(2, N(20)),
                         Traced(3, N(30))>>) >>
      [] b = 2 -> << L(<<L(<<S("lambda"), Params(1),
                             L(<<S("if"), Traced(1, CallExpr("=", <<S("p1"), N(a)>>)),
                                 IF a = 0 THEN CallExpr("recur", <<N(1)>>)
                                          ELSE Traced(2, N(20)),
                                 IF a = 0 THEN Traced(3, N(30))
                                          ELSE CallExpr("recur", <<N(1)>>)>>)>>),
                         N(0)>>) >>

(* (while (begin (print 1) (< i a)) (begin (print 2) (set i (+ i 1)))) *)
WhileLoop(a) ==
    L(<<S("while"), Traced(1, CallExpr("<", <<S("i"), N(a)>>)),
        Traced(2, L(<<S("set"), S("i"), CallExpr("+", <<S("i"), N(1)>>)>>))>>)

(* (var i 0) and then, with W the loop above that runs a times,            *)
(* b = 1: W                                                                *)
(* b = 2: (var r W) (is-nil r)                                             *)
(* b = 3: ((lambda () W))                                                  *)
(* b = 4: (if W 1 2)                                                       *)
(* b = 5: (and W)                                                          *)
(* b = 6: (W 1)                                                            *)
WhileProgram(a, b) ==
    << VarExpr("i", N(0)) >> \o
    CASE b = 1 -> << WhileLoop(a) >>
      [] b = 2 -> << VarExpr("r", WhileLoop(a)), CallExpr("is-nil", <<S("r")>>) >>
      [] b = 3 -> << L(<<L(<<S("lambda"), Params(0), WhileLoop(a)>>)>>) >>
      [] b = 4 -> << L(<<S("if"), WhileLoop(a), N(1), N(2)>>) >>
      [] b = 5 -> << L(<<S("and"), WhileLoop(a)>>) >>
      [] b = 6 -> << L(<<WhileLoop(a), N(1)>>) >>
NumWhilePrograms == 6

(* a = 1: (var k "a") (var m (map k (begin (print 1) 1) "b" (begin (print 2) 2))) *)
(*        (print (map:get m "a") (map:get m "k") (map:get m "b"))          *)
(* a = 2: (var j 0) (var m (map k 1))                                      *)
(* a = 3: (var k 5) (var m (map k 1))                                      *)
(* a = 4: (var j 0) (var m (map "a" (begin (print 1) 1) "b" (begin (print 2) 2) *)
(*                              "a" (begin (print 3) 3)))                  *)
(*        (print (map:get m "a") (map:get m "b"))                          *)
(* a = 5: (var k "a") (var m (map "a" 1 k 2))                              *)
(*        (print (map:get m "a") (map:get m "k"))                          *)
(* a = 6: (var f (lambda () (map "a" 1))) (var m (f)) (var n (f))          *)
(*        (map:set m "a" 9) (print (map:get m "a") (map:get n "a"))        *)
(* a = 7: (var j 0) (var m (map 1 2))                                      *)
MapKeyProgram(a) ==
    LET at(m, k) == CallExpr("map:get", <<S(m), Str(k)>>)
    IN  CASE a = 1 -> << VarExpr("k", Str("a")),
                         VarExpr("m", CallExpr("map", <<S("k"), Traced(1, N(1)),
                                                        Str("b"), Traced(2, N(2))>>)),
                         CallExpr("print", <<at("m", "a"), at("m", "k"), at("m", "b")>>) >>
          [] a = 2 -> << VarExpr("j", N(0)),
                         VarExpr("m", CallExpr("map", <<S("k"), N(1)>>)) >>
          [] a = 3 -> << VarExpr("k", N(5)),
                         VarExpr("m", CallExpr("map", <<S("k"), N(1)>>)) >>
          [] a = 4 -> << VarExpr("j", N(0)),
                         VarExpr("m", CallExpr("map", <<Str("a"), Traced(1, N(1)),
                                                        Str("b"), Traced(2, N(2)),
                                                        Str("a"), Traced(3, N(3))>>)),
                         CallExpr("print", <<at("m", "a"), at("m", "b")>>) >>
          [] a = 5 -> << VarExpr("k", Str("a")),
                         VarExpr("m", CallExpr("map", <<Str("a"), N(1), S("k"), N(2)>>)),
                         CallExpr("print", <<at("m", "a"), at("m", "k")>>) >>
          [] a = 6 -> << VarExpr("f", L(<<S("lambda"), Params(0),
                                          CallExpr("map", <<Str("a"), N(1)>>)>>)),
                         VarExpr("m", L(<<S("f")>>)),
                         VarExpr("n", L(<<S("f")>>)),
                         CallExpr("map:set", <<S("m"), Str("a"), N(9)>>),
                         CallExpr("print", <<at("m", "a"), at("n", "a")>>) >>
          [] a = 7 -> << VarExpr("j", N(0)),
                         VarExpr("m", CallExpr("map", <<N(1), N(2)>>)) >>
NumMapKeyPrograms == 7

(* (+ o1 .. ob), operand j being 0, 12, "a" or true for digit j of a in    *)
(* base 4 equal to 0, 1, 2 or 3.                                           *)
PlusProgram(a, b) ==
    << CallExpr("+", [j \in 1..b |->
                        CASE (a \div (4 ^ (j - 1))) % 4 = 0 -> N(0)
                          [] (a \div (4 ^ (j - 1))) % 4 = 1 -> N(12)
                          [] (a \div (4 ^ (j - 1))) % 4 = 2 -> Str("a")
                          [] (a \div (4 ^ (j - 1))) % 4 = 3 -> BoolExpr(TRUE)]) >>

(* (var f (lambda (n k) (if (= (var t n) 0) (k)                            *)
(*                         (recur (- n 1) (if (= n b) (lambda () (+ n t)) k))))) *)
(* (f a (lambda () 99))                                                    *)
TurnProgram(a, b) ==
    << VarExpr("f",
          L(<<S("lambda"), L(<<S("n"), S("k")>>),
              L(<<S("if"), CallExpr("=", <<VarExpr("t", S("n")), N(0)>>),
                  L(<<S("k")>>),
                  L(<<S("recur"), CallExpr("-", <<S("n"), N(1)>>),
                      L(<<S("if"), CallExpr("=", <<S("n"), N(b)>>),
                          L(<<S("lambda"), L(<<>>), CallExpr("+", <<S("n"), S("t")>>)>>),
                          S("k")>>)>>)>>)>>)),
       L(<<S("f"), N(a), L(<<S("lambda"), L(<<>>), N(99)>>)>>) >>

(* A var that is a branch, a loop body, an operand, an argument or a       *)
(* closure body.                                                           *)
(* a = 1: (if true (var x 1) 0) x                                          *)
(* a = 2: (if false 0 (var x 2)) x                                         *)
(* a = 3: (var n 0) (while (< n 1) (var y (set n (+ n 1)))) y              *)
(* a = 4: (while true (var x 4))                                           *)
(* a = 5: ((lambda (p) (var p 5)) 1)                                       *)
(* a = 6: ((lambda (p) (begin (var p 6) p)) 1)                             *)
(* a = 7: (or (var b true) false) b                                        *)
(* a = 8: (+ (var c 8) 1) c                                                *)
(* a = 9: ((lambda (p) (begin (if true (var q 9) 0) (+ p q))) 1)           *)
BareVarProgram(a) ==
    CASE a = 1 -> << L(<<S("if"), BoolExpr(TRUE), VarExpr("x", N(1)), N(0)>>), S("x") >>
      [] a = 2 -> << L(<<S("if"), BoolExpr(FALSE), N(0), VarExpr("x", N(2))>>), S("x") >>
      [] a = 3 -> << VarExpr("n", N(0)),
                     L(<<S("while"), CallExpr("<", <<S("n"), N(1)>>),
                         VarExpr("y", L(<<S("set"), S("n"),
                                          CallExpr("+", <<S("n"), N(1)>>)>>))>>),
                     S("y") >>
      [] a = 4 -> << L(<<S("while"), BoolExpr(TRUE), VarExpr("x", N(4))>>) >>
      [] a = 5 -> << L(<<L(<<S("lambda"), L(<<S("p")>>), VarExpr("p", N(5))>>), N(1)>>) >>
      [] a = 6 -> << L(<<L(<<S("lambda"), L(<<S("p")>>),
                             L(<<S("begin"), VarExpr("p", N(6)), S("p")>>)>>), N(1)>>) >>
      [] a = 7 -> << L(<<S("or"), VarExpr("b", BoolExpr(TRUE)), BoolExpr(FALSE)>>), S("b") >>
      [] a = 8 -> << CallExpr("+", <<VarExpr("c", N(8)), N(1)>>), S("c") >>
      [] a = 9 -> << L(<<L(<<S("lambda"), L(<<S("p")>>),
                             L(<<S("begin"),
                                 L(<<S("if"), BoolExpr(TRUE), VarExpr("q", N(9)), N(0)>>),
                                 CallExpr("+", <<S("p"), S("q")>>)>>)>>), N(1)>>) >>

(* (var v (vector 1 .. a)) (var w v) and then                              *)
(* b = 0: (var r (vec:pop v)) (vec:len v)                                  *)
(* b > 0: (var r (vec:delete v (b - 1))) (vec:len v)                       *)
ShrinkProgram(a, b) ==
    << VarExpr("v", CallExpr("vector", Numbers(a))),
       VarExpr("w", S("v")),
       VarExpr("r", IF b = 0 THEN CallExpr("vec:pop", <<S("v")>>)
                    ELSE CallExpr("vec:delete", <<S("v"), N(b - 1)>>)),
       CallExpr("vec:len", <<S("v")>>) >>

(* Sources with a switch of b cases; condition j prints j and is true    *)
(* when bit j of a is set, value j prints 10 + j and is j, and the default *)
(* prints 20 and is 9.                                                     *)
(* c = 0: (switch (c1 v1) .. (cb vb) (default d))                          *)
(* c = 1: (switch (c1 v1) (c2 v2))                                         *)
(* c = 2: (switch (c1 v1) (default d d))                                   *)
(* c = 3: (switch (c1) (default d))                                        *)
(* c = 4: (switch c1 (default d))                                          *)
(* c = 5: (switch (true 1) (default 9))                                    *)
(* c = 6: (var t true) (switch (t 1) (default 9))                          *)
SwitchSource(a, b, c) ==
    LET cond(j) == Traced(j, BoolExpr((a \div (2 ^ (j - 1))) % 2 = 1))
        val(j) == Traced(10 + j, N(j))
        d == Traced(20, N(9))
        switch(cases) == L(<<S("switch")>> \o cases)
    IN  CASE c = 0 -> << switch([j \in 1..b |-> L(<<cond(j), val(j)>>)]
                                \o <<L(<<S("default"), d>>)>>) >>
          [] c = 1 -> << switch(<<L(<<cond(1), val(1)>>), L(<<cond(2), val(2)>>)>>) >>
          [] c = 2 -> << switch(<<L(<<cond(1), val(1)>>), L(<<S("default"), d, d>>)>>) >>
          [] c = 3 -> << switch(<<L(<<cond(1)>>), L(<<S("default"), d>>)>>) >>
          [] c = 4 -> << switch(<<cond(1), L(<<S("default"), d>>)>>) >>
          [] c = 5 -> << switch(<<L(<<BoolExpr(TRUE), N(1)>>), L(<<S("default"), N(9)>>)>>) >>
          [] c = 6 -> << VarExpr("t", BoolExpr(TRUE)),
                         switch(<<L(<<S("t"), N(1)>>), L(<<S("default"), N(9)>>)>>) >>

(* Sources with (for (var i <print 1, 0>) <print 2, (< i a)>               *)
(*                   <print 4, (set i (+ i 1))> (var t <print 3, i>))      *)
(* b = 1: the for alone                                                    *)
(* b = 2: the for, then i                                                  *)
(* b = 3: (var i 7) (var t 8), the for, then (+ i t)                       *)
(* b = 4: a for without its body                                           *)
ForSource(a, b) ==
    LET init == VarExpr("i", Traced(1, N(0)))
        cond == Traced(2, CallExpr("<", <<S("i"), N(a)>>))
        inc == Traced(4, L(<<S("set"), S("i"), CallExpr("+", <<S("i"), N(1)>>)>>))
        body == VarExpr("t", Traced(3, S("i")))
        for == L(<<S("for"), init, cond, inc, body>>)
    IN  CASE b = 1 -> << for >>
          [] b = 2 -> << for, S("i") >>
          [] b = 3 -> << VarExpr("i", N(7)), VarExpr("t", N(8)), for,
                         CallExpr("+", <<S("i"), S("t")>>) >>
          [] b = 4 -> << L(<<S("for"), init, cond, inc>>) >>

(* The files of the include programs, by path; every file prints numbers   *)
(* of its own.                                                             *)
(* a = 1: main includes itself                                             *)
(* a = 2: main includes b, b includes main                                 *)
(* a = 3: main includes b and c, b and c include d                         *)
(* a = 4: main includes lib/b twice under two spellings, lib/b includes    *)
(*        ../main and c                                                    *)
(* a = 5: main includes a file that does not exist                         *)
(* a = 6: main has an include inside a begin                               *)
IncludeFiles(a) ==
    LET P(n) == CallExpr("print", <<N(n)>>)
        Inc(path) == L(<<S("include"), Str(path)>>)
    IN  CASE a = 1 -> (<<"main">> :> <<P(11), Inc(<<"main">>), P(12)>>)
          [] a = 2 -> (<<"main">> :> <<P(11), Inc(<<"b">>), P(12)>>)
                      @@ (<<"b">> :> <<P(21), Inc(<<"main">>), P(22)>>)
          [] a = 3 -> (<<"main">> :> <<Inc(<<"b">>), Inc(<<"c">>), P(11)>>)
                      @@ (<<"b">> :> <<Inc(<<"d">>), P(21)>>)
                      @@ (<<"c">> :> <<Inc(<<"d">>), P(31)>>)
                      @@ (<<"d">> :> <<P(41)>>)
          [] a = 4 -> (<<"main">> :> <<Inc(<<"lib", "b">>),
                                       Inc(<<".", "lib", "..", "lib", "b">>), P(11)>>)
                      @@ (<<"lib", "b">> :> <<P(21), Inc(<<"..", "main">>), Inc(<<"c">>)>>)
                      @@ (<<"lib", "c">> :> <<P(31)>>)
          [] a = 5 -> (<<"main">> :> <<P(11), Inc(<<"nofile">>)>>)
          [] a = 6 -> (<<"main">> :> <<P(11), L(<<S("begin"), Inc(<<"b">>)>>)>>)
                      @@ (<<"b">> :> <<P(21)>>)

(* Programs that are evaluated twice.                                      *)
(* a = 1: (var m (map "a" 1 "b" 2)) (map:keys m)                           *)
(* a = 2: (var m (map "a" 1 "b" 2)) (map:values m)                         *)
(* a = 3: (map "a" 1 "b" 2)                                                *)
(* a = 4: (var m (map "a" 1)) (map:set m "b" 2) (vec:len (map:keys m))     *)
(* a = 5: (vector 1 2 (+ 1 2))                                             *)
(* a = 6: (+ 1 true)                                                       *)
(* a = 7: (map:keys (map "a" 1))                                           *)
TwiceProgram(a) ==
    LET ab == CallExpr("map", <<Str("a"), N(1), Str("b"), N(2)>>)
    IN  CASE a = 1 -> << VarExpr("m", ab), CallExpr("map:keys", <<S("m")>>) >>
          [] a = 2 -> << VarExpr("m", ab), CallExpr("map:values", <<S("m")>>) >>
          [] a = 3 -> << ab >>
          [] a = 4 -> << VarExpr("m", CallExpr("map", <<Str("a"), N(1)>>)),
                         CallExpr("map:set", <<S("m"), Str("b"), N(2)>>),
                         CallExpr("vec:len", <<CallExpr("map:keys", <<S("m")>>)>>) >>
          [] a = 5 -> << CallExpr("vector", <<N(1), N(2), CallExpr("+", <<N(1), N(2)>>)>>) >>
          [] a = 6 -> << CallExpr("+", <<N(1), BoolExpr(TRUE)>>) >>
          [] a = 7 -> << CallExpr("map:keys", <<CallExpr("map", <<Str("a"), N(1)>>)>>) >>

Id(name, a, b, c) == [name |-> name, a |-> a, b |-> b, c |-> c]

ProgramIds ==
    {Id("fact", a, 0, 0) : a \in 0..MaxN}
    \cup {Id("sumTCO", a, 0, 0) : a \in 0..MaxN}
    \cup {Id("sum", a, 0, 0) : a \in 0..MaxN}
    \cup {Id("strict", a, b, 0) : a \in 1..NumStrictContexts, b \in 0..1}
    \cup {Id("strict", 0, b, 0) : b \in 2..3}
    \cup {Id("strict", a, 4, 0) : a \in 0..1}
    \cup {Id("arity", a, b, c) : a \in 0..MaxArity, b \in 0..MaxArity, c \in 0..1}
    \cup {Id("scope", a, b, c) : a \in 1..NumScopeStmts, b \in 1..NumScopeStmts,
                                 c \in 1..NumScopeStmts}
    \cup {Id("shadow", a, 0, 0) : a \in 1..5}
    \cup {Id("closure", a, 0, 0) : a \in 1..5}
    \cup {Id("lexical", a, 0, 0) : a \in 1..4}
    \cup {Id("block", a, 0, 0) : a \in 1..4}
    \cup {Id("forms", a, 0, 0) : a \in 1..8}
    \cup {Id("order", a, b, 0) : a \in 1..4, b \in 0..MaxArity}
    \cup {Id("notfn", a, b, 0) : a \in 1..NumNotFunctions, b \in 0..1}
    \cup {Id("abort", a, b, 0) : a \in 1..NumAbortPrograms, b \in 1..NumFailing}
    \cup {Id("push", a, b, 0) : a \in 0..MaxLen, b \in 1..4}
    \cup {Id("share", a, 0, 0) : a \in 1..9}
    \cup {Id("cond", a, b, 0) : a \in 0..(NumConditions - 1), b \in 0..1}
    \cup {Id("cond", a, 2, 0) : a \in 0..1}
    \cup {Id("while", a, b, 0) : a \in 0..MaxIterations, b \in 1..NumWhilePrograms}
    \cup {Id("mapkey", a, 0, 0) : a \in 1..NumMapKeyPrograms}
    \cup UNION {{Id("plus", a, b, 0) : a \in 0..((4 ^ b) - 1)} : b \in 2..3}
    \cup UNION {{Id("turn", a, b, 0) : b \in 1..a} : a \in 1..3}
    \cup {Id("barevar", a, 0, 0) : a \in 1..9}
    \cup UNION {{Id("shrink", a, b, 0) : b \in 0..a} : a \in 1..MaxLen}
    \cup UNION {{Id("switch", a, b, 0) : a \in 0..((2 ^ b) - 1)} : b \in 1..3}
    \cup {Id("switch", 0, 2, c) : c \in 1..6}
    \cup {Id("for", a, b, 0) : a \in 0..MaxIterations, b \in 1..4}
    \cup {Id("include", a, 0, 0) : a \in 1..6}
    \cup {Id("twice", a, 0, 0) : a \in 1..7}
    \cup UNION {{Id("logic", a, b, c) : a \in 0..((3 ^ b) - 1), c \in 0..1} :
                    b \in 0..MaxOperands}

ProgramOf(id) ==
    LocateProgram(
        CASE id.name = "fact" -> FactProgram(id.a)
          [] id.name = "sumTCO" -> SumWithTCOProgram(id.a)
          [] id.name = "sum" -> SumProgram(id.a)
          [] id.name = "strict" -> StrictProgram(id.a, id.b)
          [] id.name = "arity" -> ArityProgram(id.a, id.b, id.c)
          [] id.name = "scope" -> ScopeProgram(id.a, id.b, id.c)
          [] id.name = "shadow" -> ShadowProgram(id.a)
          [] id.name = "closure" -> ClosureProgram(id.a)
          [] id.name = "lexical" -> LexicalProgram(id.a)
          [] id.name = "block" -> BlockProgram(id.a)
          [] id.name = "forms" -> FormsProgram(id.a)
          [] id.name = "logic" -> LogicProgram(id.a, id.b, id.c)
          [] id.name = "order" -> OrderProgram(id.a, id.b)
          [] id.name = "notfn" -> NotFunctionProgram(id.a, id.b)
          [] id.name = "abort" -> AbortProgram(id.a, id.b)
          [] id.name = "push" -> PushProgram(id.a, id.b)
          [] id.name = "share" -> ShareProgram(id.a)
          [] id.name = "cond" -> CondProgram(id.a, id.b)
          [] id.name = "while" -> WhileProgram(id.a, id.b)
          [] id.name = "mapkey" -> MapKeyProgram(id.a)
          [] id.name = "plus" -> PlusProgram(id.a, id.b)
          [] id.name = "turn" -> TurnProgram(id.a, id.b)
          [] id.name = "barevar" -> BareVarProgram(id.a)
          [] id.name = "shrink" -> ShrinkProgram(id.a, id.b)
          [] id.name = "twice" -> TwiceProgram(id.a))

----------------------------------------------------------------------------
(* NewInterpreter: an empty global environment, nothing evaluated yet. *)
(* The programs that are built from source files by the ProgramBuilder,   *)
(* and their files by path (relative to the working directory).            *)
FromSource(id) == id.name \in {"switch", "for", "include"}
Files(id) ==
    CASE id.name = "switch" -> (<<"main">> :> SwitchSource(id.a, id.b, id.c))
      [] id.name = "for" -> (<<"main">> :> ForSource(id.a, id.b))
      [] id.name = "include" -> IncludeFiles(id.a)

(* filepath.Clean of a relative path given by its elements. *)
RECURSIVE Clean(_, _)
Clean(done, rest) ==
    IF rest = <<>> THEN done
    ELSE IF Head(rest) = "." THEN Clean(done, Tail(rest))
    ELSE IF Head(rest) = ".." /\ done # <<>>
    THEN Clean(SubSeq(done, 1, Len(done) - 1), Tail(rest))
    ELSE Clean(Append(done, Head(rest)), Tail(rest))

(* A resolveRefPath that keeps the spelling of the include. *)
resolveRefPathAsWritten(referenceFile, destinationFile) == destinationFile

(* resolveRefPath: the destination relative to the directory of the file   *)
(* that refers to it, cleaned.                                             *)
resolveRefPath(referenceFile, destinationFile) ==
    Clean(<<>>, SubSeq(referenceFile, 1, Len(referenceFile) - 1) \o destinationFile)

isIncludeExpr(expr) ==
    /\ expr.k = "list"
    /\ Len(expr.l) = 2
    /\ IsSymbol(expr.l[1], "include")
    /\ expr.l[2].k = "str"

fileWasParsed(parsedFiles, filename) ==
    \E j \in 1..Len(parsedFiles) : parsedFiles[j] = filename

(* An expansion that puts the included program behind the rest. *)
ExpandAtEnd(prog, idx, included) ==
    SubSeq(prog, 1, idx - 1) \o SubSeq(prog, idx + 1, Len(prog)) \o included

(* append(Program[:idx], append(inc.Program, Program[idx+1:]...)...): the  *)
(* expression at idx gives way to the included program.                    *)
Expand(prog, idx, included) ==
    SubSeq(prog, 1, idx - 1) \o included \o SubSeq(prog, idx + 1, Len(prog))

(* What scanner and parser make of every file of every program that is    *)
(* built from source.                                                      *)
Parsed ==
    [id \in {i \in ProgramIds : FromSource(i)} |->
        [filename \in DOMAIN Files(id) |-> Parse(Files(id)[filename])]]

(* BuildFromFile: read the file, then the start of BuildFromSource: note   *)
(* the file as parsed, scan and parse it.  An error ends the build.        *)
BuildFromFile(filename) ==
    IF filename \notin DOMAIN Files(pid)
    THEN /\ ctrl' = [m |-> "rejected", err |-> Errorf("missing file", filename)]
         /\ stack' = <<>>
    ELSE LET astNodes == Parsed[pid][filename]
         IN  IF astNodes.k # "ok"
             THEN /\ ctrl' = [m |-> "rejected", err |-> astNodes.err]
                  /\ stack' = <<>>
             ELSE /\ ctrl' = [ctrl EXCEPT !.parsedFiles = Append(@, filename)]
                  /\ stack' = Append(stack, [f |-> "BuildFromSource", filename |-> filename,
                                              program |-> astNodes.value, idx |-> 1])

(* BuildFromSource: one turn of the loop over the top-level expressions of *)
(* the file on top; an include of a parsed file is removed, any other      *)
(* include is built and expanded in place; at the end of the file the      *)
(* program goes to the including file, or to the interpreter.              *)
BuildFromSource ==
    /\ ctrl.m = "build"
    /\ IF stack = <<>> THEN BuildFromFile(<<"main">>) /\ UNCHANGED program
       ELSE IF Top.idx > Len(Top.program)
       THEN IF Len(stack) = 1
            THEN /\ program' = LocateProgram(Top.program)
                 /\ ctrl' = [m |-> "idle"]
                 /\ stack' = <<>>
            ELSE LET parent == stack[Len(stack) - 1]
                 IN  /\ stack' = Append(SubSeq(stack, 1, Len(stack) - 2),
                                        [parent EXCEPT
                                            !.program = Expand(@, parent.idx, Top.program),
                                            !.idx = @ + Len(Top.program)])
                     /\ UNCHANGED <<ctrl, program>>
       ELSE IF isIncludeExpr(Top.program[Top.idx])
       THEN LET includeFilename == resolveRefPath(Top.filename, Top.program[Top.idx].l[2].s)
            IN  IF fileWasParsed(ctrl.parsedFiles, includeFilename)
                THEN /\ stack' = Append(Pop, [Top EXCEPT !.program = Expand(@, Top.idx, <<>>)])
                     /\ UNCHANGED <<ctrl, program>>
                ELSE BuildFromFile(includeFilename) /\ UNCHANGED program
       ELSE /\ stack' = Append(Pop, [Top EXCEPT !.idx = @ + 1])
            /\ UNCHANGED <<ctrl, program>>
    /\ UNCHANGED <<pid, topIdx, envs, arrays, maps, lastValue, output>>

(* The test of a program that is evaluated twice: at the end of an        *)
(* evaluation the rendering of the last value, or the error, is reported;  *)
(* after the first one the program is evaluated again, from a new          *)
(* interpreter with a new global environment.                              *)
runSuccessTest ==
    /\ pid.name = "twice"
    /\ ctrl.m \in {"done", "failed"}
    /\ Len(output) < 2
    /\ \E order \in IF ctrl.m = "done" /\ lastValue # GoNil /\ lastValue.t = "MAP"
                     THEN Orders(DOMAIN maps[lastValue.ref]) ELSE {<<>>} :
          output' = Append(output, IF ctrl.m = "failed" THEN <<ctrl.err>>
                                   ELSE <<String(Rendering(lastValue, arrays, maps, order))>>)
    /\ IF output = <<>>
       THEN /\ topIdx' = 1
            /\ ctrl' = [m |-> "idle"]
            /\ envs' = <<NewEnvironment(EmptyRecord, 0)>>
            /\ arrays' = <<>>
            /\ maps' = <<>>
            /\ lastValue' = GoNil
       ELSE UNCHANGED <<topIdx, ctrl, envs, arrays, maps, lastValue>>
    /\ UNCHANGED <<pid, program, stack>>

Init ==
    /\ pid \in ProgramIds
    /\ program = (IF FromSource(pid) THEN <<>> ELSE ProgramOf(pid))
    /\ topIdx = 1
    /\ ctrl = (IF FromSource(pid) THEN [m |-> "build", parsedFiles |-> <<>>]
               ELSE [m |-> "idle"])
    /\ stack = <<>>
    /\ envs = <<NewEnvironment(EmptyRecord, 0)>>
    /\ arrays = <<>>
    /\ maps = <<>>
    /\ lastValue = GoNil
    /\ output = <<>>

Next ==
    \/ BuildFromSource
    \/ runSuccessTest
    \/ EvalProgram
    \/ eval
    \/ evalAtom
    \/ evalSymbol
    \/ evalList
    \/ evalLogical
    \/ evalBegin
    \/ evalVar
    \/ evalSet
    \/ evalIf
    \/ evalWhile
    \/ evalLambda
    \/ evalRecur
    \/ evalVector
    \/ evalMap
    \/ evalCallFunction
    \/ evalFunctionArguments

Spec == Init /\ [][Next]_vars

(* The evaluator is sequential code: a step that can be taken is taken. *)
FairSpec == Spec /\ WF_vars(Next)

Finished == ctrl.m \in {"done", "failed", "panic"}

----------------------------------------------------------------------------
(* Notions the properties are stated with. *)

RECURSIVE Factorial(_)
Factorial(n) == IF n = 0 THEN 1 ELSE n * Factorial(n - 1)

(* The trampoline has just started a turn: the body of the closure of the  *)
(* top frame is about to be evaluated in the new activation environment.   *)
IterationStart ==
    /\ ctrl.m = "call"
    /\ stack # <<>>
    /\ Top.f = "evalCallFunction"
    /\ Top.pc = "body"
    /\ ctrl.expr = Top.fn.body
    /\ ctrl.env = Len(envs)

(* The body of the closure of the top frame has returned a recur marker. *)
BodyReturnsRecur ==
    /\ Returning("evalCallFunction")
    /\ Top.pc = "body"
    /\ ctrl.m = "ret"
    /\ ctrl.val.t = "RECUR"

(* Closure calls in progress, and the depth of the Go stack. *)
CallDepth == Cardinality({j \in 1..Len(stack) :
                            stack[j].f = "evalCallFunction" /\ stack[j].pc = "body"})
StackDepth == Len(stack)

IsRecur(v) == v.t = "RECUR"

RecurMessage == "recur can only be used in tail position of a function"

----------------------------------------------------------------------------
(* C1: when the body of a called closure returns a recur marker (with as   *)
(* many arguments as the closure has parameters) the body is evaluated     *)
(* again in an environment that binds parameter j to argument j of the     *)
(* marker, and a body result that is not a marker is what the call         *)
(* returns; the program (def fact ...) (fact n 1) terminates with n!, for  *)
(* every n in 0..MaxN.                                                     *)
RecurRebindsAndFactReturnsFactorial ==
    /\ [][(BodyReturnsRecur /\ Len(ctrl.val.args) = Len(Top.fn.params.l))
            => /\ IterationStart'
               /\ ctrl'.expr = Top.fn.body
               /\ \A j \in 1..Len(Top.fn.params.l) :
                    (\A h \in (j + 1)..Len(Top.fn.params.l) :
                        Top.fn.params.l[h].s # Top.fn.params.l[j].s)
                    => envs'[ctrl'.env].record[Top.fn.params.l[j].s] = ctrl.val.args[j]]_vars
    /\ [][(Returning("evalCallFunction") /\ Top.pc = "body" /\ ctrl.m = "ret"
           /\ ctrl.val # GoNil /\ ~IsRecur(ctrl.val))
            => (ctrl' = ctrl /\ stack' = Pop)]_vars
    /\ (pid.name = "fact")
         => <>(pid.name = "fact" /\ ctrl.m = "done" /\ lastValue = Number(Factorial(pid.a)))

FactOfFiveIs120 ==
    /\ pid = Id("fact", 5, 0, 0)
    /\ ctrl.m = "done"
    /\ lastValue = Number(120)

(* C2: a turn of the trampoline taken on a recur marker leaves the depth   *)
(* of the stack and the number of closure calls in progress as they were,  *)
(* so every turn of (sum a 0) written with recur starts at the depth of    *)
(* the first; in (sum a) written with a plain self-call the turn for n     *)
(* starts with a - n + 1 closure calls in progress.                        *)
RecurKeepsDepthSelfCallGrows ==
    /\ [][BodyReturnsRecur => (StackDepth' = StackDepth /\ CallDepth' = CallDepth)]_vars
    /\ [](IterationStart =>
            /\ pid.name = "sumTCO" => (CallDepth = 1 /\ StackDepth = 3)
            /\ pid.name = "sum" =>
                  (/\ CallDepth = pid.a - envs[ctrl.env].record["n"].n + 1
                   /\ StackDepth >= CallDepth))

(* The last turn of (sum MaxN 0) with recur, and the innermost call of     *)
(* (sum MaxN) with a self-call.                                            *)
LastTurnAtDepthOne ==
    /\ pid = Id("sumTCO", MaxN, 0, 0)
    /\ IterationStart
    /\ envs[ctrl.env].record["n"] = Number(0)
    /\ CallDepth = 1

(* C3: no binding of an environment, element of a vector, value of a map,  *)
(* argument of a call or of a marker, nor the value EvalProgram got from   *)
(* eval is a recur marker; an eval that gets the marker from the           *)
(* expression returns the error "recur can only be used in tail position   *)
(* of a function", and so every program with recur in a strict position    *)
(* fails with that error.                                                  *)
NoMarkerIn(vs) == \A j \in DOMAIN vs : ~IsRecur(vs[j])

MarkerStaysInTrampoline ==
    /\ [](/\ \A e \in 1..Len(envs) : NoMarkerIn(envs[e].record)
          /\ \A a \in 1..Len(arrays) : NoMarkerIn(arrays[a])
          /\ \A g \in 1..Len(maps) : NoMarkerIn(maps[g])
          /\ \A j \in 1..Len(stack) :
                /\ stack[j].f \in {"evalCallFunction", "evalRecur"} => NoMarkerIn(stack[j].args)
                /\ stack[j].f = "evalFunctionArguments" => NoMarkerIn(stack[j].results)
                /\ stack[j].f \in {"evalVector", "evalMap"} => NoMarkerIn(stack[j].elements)
                /\ stack[j].f = "evalWhile" => ~IsRecur(stack[j].lastValue)
          /\ (ctrl.m = "ret" /\ ctrl.val.t = "values") => NoMarkerIn(ctrl.val.vs)
          /\ (ctrl.m = "ret" /\ ctrl.val.t = "RECUR") => NoMarkerIn(ctrl.val.args)
          /\ ~IsRecur(lastValue)
          /\ (Returning("EvalProgram") /\ ctrl.m = "ret") => ~IsRecur(ctrl.val)
          /\ (Finished /\ pid.name = "strict" /\ pid.b <= 3)
                => (ctrl.m = "failed" /\ ctrl.err.msg = RecurMessage))
    /\ [][(Returning("eval") /\ ctrl.m = "ret" /\ IsRecur(ctrl.val))
            => (ctrl'.m = "err" /\ ctrl'.err.msg = RecurMessage
                /\ ctrl'.err.loc = Top.expr.loc)]_vars

(* The marker made by (var v (recur 1)) in a function body has reached the *)
(* eval of the value expression and was turned into the error.             *)
MarkerRejectedInVar ==
    /\ pid = Id("strict", 1, 1, 0)
    /\ Returning("evalVar")
    /\ ctrl.m = "err"
    /\ ctrl.err.msg = RecurMessage

----------------------------------------------------------------------------
(* Scopes, read off the heap without the operations of Environment. *)

(* The scopes of the chain that starts at env, innermost first. *)
RECURSIVE Scopes(_, _)
Scopes(heap, env) == IF env = 0 THEN <<>> ELSE <<env>> \o Scopes(heap, heap[env].parent)

(* The innermost scope of the chain of env that binds name; 0 when none does. *)
Innermost(heap, env, name) ==
    LET sc == Scopes(heap, env)
        bs == {j \in 1..Len(sc) : name \in DOMAIN heap[sc[j]].record}
    IN  IF bs = {} THEN 0 ELSE sc[CHOOSE j \in bs : \A h \in bs : j <= h]

(* Scope e exists and binds name to value. *)
Bound(e, name, value) ==
    /\ e <= Len(envs)
    /\ name \in DOMAIN envs[e].record
    /\ envs[e].record[name] = value

(* Top-level expression k has been evaluated and was the last one so far. *)
Evaluated(k) == ctrl.m = "idle" /\ topIdx = k + 1

(* evalCallFunction is about to bind the parameters of a closure: to the   *)
(* arguments of the call, or to those of a recur marker.                   *)
BindingTurn ==
    /\ Returning("evalCallFunction")
    /\ ctrl.m = "ret"
    /\ \/ Top.pc = "args" /\ Top.fn.t = "FUNC"
       \/ Top.pc = "body" /\ ctrl.val # GoNil /\ ctrl.val.t = "RECUR"
BindingArgs == IF Top.pc = "args" THEN ctrl.val.vs ELSE ctrl.val.args

----------------------------------------------------------------------------
(* C4: a closure called, directly or through recur, with a number of       *)
(* arguments that is not its number of parameters gives an error value:    *)
(* the evaluator does not stop on an index out of range, no turn of the    *)
(* trampoline starts the body with an argument list of another length      *)
(* than the parameter list, and the program ends with an error.            *)
ArityMismatchIsError ==
    /\ ctrl.m = "panic" => ctrl.msg # "index out of range"
    /\ IterationStart => Len(Top.args) = Len(Top.fn.params.l)
    /\ (Finished /\ pid.name = "arity" /\ pid.a # pid.b) => ctrl.m = "failed"

(* C5: at the Define of evalVar, when the name is in the record of the     *)
(* scope the var is in, the result is the already-defined error and no     *)
(* scope changes; otherwise (the name bound in ancestors only, or nowhere) *)
(* the result is the value, the scope gains exactly that binding and every *)
(* other scope stays as it is.  A var of x at the top level after a var of *)
(* x at the top level fails, whatever the blocks in between defined.       *)
DefineFailsOnlyInCurrentScope ==
    /\ [][(Returning("evalVar") /\ ctrl.m = "ret")
            => LET env == Top.env
                   name == Top.expr.l[2].s
               IN  IF name \in DOMAIN envs[env].record
                   THEN /\ ctrl'.m = "err"
                        /\ ctrl'.err.msg = "symbol already defined"
                        /\ ctrl'.err.arg = name
                        /\ envs' = envs
                   ELSE /\ ctrl' = Ret(ctrl.val)
                        /\ Len(envs') = Len(envs)
                        /\ \A e \in 1..Len(envs) : e # env => envs'[e] = envs[e]
                        /\ envs'[env].parent = envs[env].parent
                        /\ DOMAIN envs'[env].record = DOMAIN envs[env].record \cup {name}
                        /\ envs'[env].record[name] = ctrl.val
                        /\ \A n \in DOMAIN envs[env].record :
                                envs'[env].record[n] = envs[env].record[n]]_vars
    /\ []((Finished /\ pid.name = "scope" /\ pid.a \in {1, 2} /\ pid.c \in {1, 2}
           /\ pid.b # 5)
            => /\ ctrl.m = "failed"
               /\ ctrl.err.msg = "symbol already defined"
               /\ ctrl.err.arg = "x"
               /\ topIdx = 4
               /\ Bound(global, "x", Number(IF pid.b = 3 THEN 3 ELSE pid.a))
               /\ Bound(3, "x", Number(pid.c)))

(* (var x 1) (begin (var x 2) (begin (var x 1) x) x) x (var x 1): the vars *)
(* of the blocks shadowed, the second var at the top level failed.         *)
SecondVarFailedAfterShadowing ==
    /\ pid = Id("scope", 1, 2, 1)
    /\ ctrl.m = "failed"
    /\ ctrl.err.msg = "symbol already defined"
    /\ Bound(global, "x", Number(1))
    /\ Bound(2, "x", Number(2))
    /\ Bound(3, "x", Number(1))

(* C6: at the Assign of evalSet, when some scope of the chain binds the    *)
(* name, the binding of the innermost such scope gets the value, nothing   *)
(* else of the heap changes and set returns the value; when none does, the *)
(* heap stays as it is and set reports "undefined variable", also for the  *)
(* name of a native.                                                       *)
AssignChangesInnermostBinding ==
    /\ [][(Returning("evalSet") /\ ctrl.m = "ret")
            => LET name == Top.expr.l[2].s
                   b == Innermost(envs, Top.env, name)
               IN  IF b # 0
                   THEN /\ ctrl' = Ret(ctrl.val)
                        /\ envs' = [envs EXCEPT ![b].record[name] = ctrl.val]
                   ELSE /\ envs' = envs
                        /\ ctrl' = Fail(error("undefined variable", name,
                                              Top.expr.l[2].loc))]_vars
    /\ []((Finished /\ pid.name = "scope" /\ pid.a = 5)
            => /\ ctrl.m = "failed"
               /\ ctrl.err.msg = "undefined variable"
               /\ ctrl.err.arg = "print"
               /\ envs = <<NewEnvironment(EmptyRecord, 0)>>)

(* (var x 1) (begin (var x 2) (begin (set x 3) x) x) ...: the set of the   *)
(* inner block changed the x of the outer block and not the global one.    *)
SetChangedNearestOnly ==
    /\ pid = Id("scope", 1, 2, 3)
    /\ Evaluated(2)
    /\ lastValue = Number(3)
    /\ Bound(global, "x", Number(1))
    /\ Bound(2, "x", Number(3))
    /\ 3 <= Len(envs)
    /\ "x" \notin DOMAIN envs[3].record

(* C7: while a block is being evaluated no scope around it gains or loses  *)
(* a name, and a binding of such a scope changes only by the Assign of a   *)
(* set; a block starts a new empty scope under the scope it is in.         *)
(* (begin (var x 1) (begin (var x 2) x)) is 2 and the outer x stays 1.     *)
BlockVarStaysInBlockScope ==
    /\ [][\A j \in 1..Len(stack) :
            stack[j].f = "evalBegin"
            => LET enclosing == Scopes(envs, envs[stack[j].env].parent)
               IN  \A h \in 1..Len(enclosing) :
                     LET e == enclosing[h]
                     IN  /\ DOMAIN envs'[e].record = DOMAIN envs[e].record
                         /\ envs'[e].parent = envs[e].parent
                         /\ envs'[e] # envs[e] => Returning("evalSet")]_vars
    /\ [][Entering("evalBegin")
            => /\ envs' = Append(envs, NewEnvironment(EmptyRecord, CurEnv))
               /\ ctrl'.m = "call" => ctrl'.env = Len(envs) + 1]_vars
    /\ []((Finished /\ pid = Id("block", 1, 0, 0))
            => /\ ctrl.m = "done"
               /\ lastValue = Number(2)
               /\ Bound(2, "x", Number(1))
               /\ Bound(3, "x", Number(2)))
    /\ []((Finished /\ pid = Id("block", 2, 0, 0))
            => (ctrl.m = "done" /\ lastValue = Number(1)))
    /\ []((pid = Id("block", 3, 0, 0) /\ Evaluated(2))
            => (lastValue = Number(3) /\ Bound(global, "x", Number(1))))
    /\ []((Finished /\ pid = Id("block", 3, 0, 0))
            => (ctrl.m = "done" /\ lastValue = Number(1)))
    /\ []((pid = Id("block", 4, 0, 0) /\ Evaluated(4))
            => (lastValue = Number(4) /\ DOMAIN envs[global].record = {"x", "f"}))
    /\ []((Finished /\ pid = Id("block", 4, 0, 0))
            => (ctrl.m = "failed" /\ ctrl.err.msg = "unknown symbol" /\ ctrl.err.arg = "y"))

(* (begin (var x 1) (begin (var x 2) x) x): the x after the inner block is *)
(* the x of the outer block.                                               *)
OuterBindingSurvivedBlock ==
    /\ pid = Id("block", 2, 0, 0)
    /\ ctrl.m = "done"
    /\ lastValue = Number(1)
    /\ Bound(2, "x", Number(1))
    /\ Bound(3, "x", Number(2))

(* C8: a symbol evaluates to the value of the innermost scope of the chain *)
(* that binds it, to the native of that name when no scope binds it, and   *)
(* to the "unknown symbol" error when there is no such native either; so   *)
(* a var or a parameter named + or print hides the native in its scope,    *)
(* and outside that scope the name is the native again.                    *)
SymbolResolvesInnermostThenNative ==
    /\ [][Entering("evalSymbol")
            => LET name == ctrl.expr.s
                   b == Innermost(envs, CurEnv, name)
               IN  /\ ctrl' = IF b # 0 THEN Ret(envs[b].record[name])
                              ELSE IF name \in natives THEN Ret(NativeFunction(name))
                              ELSE Fail(error("unknown symbol", name, ctrl.expr.loc))
                   /\ envs' = envs]_vars
    /\ []((pid = Id("shadow", 1, 0, 0) /\ Evaluated(1)) => lastValue = Number(5))
    /\ []((pid = Id("shadow", 1, 0, 0) /\ Finished)
            => (ctrl.m = "done" /\ lastValue = Number(3)))
    /\ []((pid = Id("shadow", 2, 0, 0) /\ Evaluated(1)) => lastValue = Number(7))
    /\ []((pid = Id("shadow", 2, 0, 0) /\ Finished)
            => (ctrl.m = "done" /\ lastValue = NativeFunction("print")))
    /\ []((pid = Id("shadow", 3, 0, 0) /\ Evaluated(2)) => lastValue = Number(0 - 1))
    /\ []((pid = Id("shadow", 3, 0, 0) /\ Finished)
            => (ctrl.m = "done" /\ lastValue = Number(3)))
    /\ []((pid = Id("shadow", 4, 0, 0) /\ Evaluated(2)) => lastValue = Number(1))
    /\ []((pid = Id("shadow", 4, 0, 0) /\ Finished)
            => (ctrl.m = "failed" /\ ctrl.err.msg = "expression is not a function"))
    /\ []((pid = Id("shadow", 5, 0, 0) /\ Finished)
            => (ctrl.m = "failed" /\ ctrl.err.msg = "unknown symbol"
                /\ ctrl.err.arg = "nosuch"))

(* (var f (lambda (+) (+ 1 2))) (f -) (+ 1 2): the parameter + was the     *)
(* native - inside f, and + is the native + at the top level again.        *)
NativeVisibleAgainOutside ==
    /\ pid = Id("shadow", 3, 0, 0)
    /\ ctrl.m = "done"
    /\ lastValue = Number(3)
    /\ Bound(2, "+", NativeFunction("-"))

(* C9: the closure made by a lambda holds the environment the lambda was   *)
(* evaluated in, and making it leaves the heap as it is; so a set or a var *)
(* done on that environment later, by the defining scope or by another     *)
(* closure of the same scope, is seen by the next call, and a set done by  *)
(* the closure is seen outside and stays after the defining scope is left. *)
ClosureSharesEnvironment ==
    /\ [][Entering("evalLambda")
            => /\ ctrl' = Ret(Function(CurEnv, ctrl.expr.l[2], ctrl.expr.l[3]))
               /\ envs' = envs]_vars
    /\ []((Finished /\ pid.name = "closure")
            => /\ ctrl.m = "done"
               /\ lastValue = Number(<<2, 2, 3, 2, 5>>[pid.a]))
    /\ []((pid = Id("closure", 1, 0, 0) /\ Evaluated(3)) => lastValue = Number(1))
    /\ []((pid = Id("closure", 4, 0, 0) /\ Finished) => Bound(2, "c", Number(2)))
    /\ []((pid = Id("closure", 5, 0, 0) /\ Finished) => Bound(global, "x", Number(5)))

(* The counter of (make) after the block of make has returned and inc has  *)
(* been called twice.                                                      *)
CounterKeptInCapturedScope ==
    /\ pid = Id("closure", 1, 0, 0)
    /\ ctrl.m = "done"
    /\ lastValue = Number(2)
    /\ \E e \in 1..Len(envs) : Bound(e, "c", Number(2))

(* C10: every turn of the trampoline evaluates the body in a new           *)
(* environment that binds the parameters and has the environment of the    *)
(* closure as its parent; so a free variable of the body is the binding of *)
(* the place of definition whatever the caller binds, and a parameter      *)
(* hides a captured variable of its name.                                  *)
ActivationParentIsCapturedEnv ==
    /\ [][(BindingTurn /\ Len(BindingArgs) >= Len(Top.fn.params.l))
            => /\ Len(envs') = Len(envs) + 1
               /\ SubSeq(envs', 1, Len(envs)) = envs
               /\ envs'[Len(envs')].parent = Top.fn.env
               /\ DOMAIN envs'[Len(envs')].record
                    = {Top.fn.params.l[j].s : j \in 1..Len(Top.fn.params.l)}
               /\ ctrl' = Call(Top.fn.body, Len(envs'))]_vars
    /\ [](IterationStart => envs[ctrl.env].parent = Top.fn.env)
    /\ []((Finished /\ pid.name = "lexical")
            => (ctrl.m = "done" /\ lastValue = Number(1)))
    /\ []((pid = Id("lexical", 2, 0, 0) /\ Evaluated(2)) => lastValue = Number(5))

(* (var x 1) (var f (lambda () x)) (begin (var x 2) (f)): f was called     *)
(* where x is 2 and returned the x of its definition.                      *)
CallSiteBindingIgnored ==
    /\ pid = Id("lexical", 1, 0, 0)
    /\ ctrl.m = "done"
    /\ lastValue = Number(1)
    /\ Bound(2, "x", Number(2))
    /\ 3 <= Len(envs)
    /\ envs[3].parent = global

----------------------------------------------------------------------------
(* What print has written so far when the traced expressions 1..k have     *)
(* been evaluated in that order, each once.                                *)
Printed(k) == [j \in 1..k |-> <<Number(j)>>]

(* C11: in (and o1 .. ob) / (or o1 .. ob) the operands are evaluated from  *)
(* the left up to the first one that is false (and), true (or) or not a    *)
(* Bool, and none after it: the operands that printed are 1..k, in order,  *)
(* k being that operand, or b when there is none.  The result is false     *)
(* for `and` stopped by false, true for `or` stopped by true, the error    *)
(* "invalid type" at the operand that is not a Bool, and otherwise true    *)
(* for `and` and false for `or`.                                           *)
LogicDigit(j) == (pid.a \div (3 ^ (j - 1))) % 3
LogicStops(j) == LogicDigit(j) = 2 \/ LogicDigit(j) = pid.c
LogicLast ==
    IF \E j \in 1..pid.b : LogicStops(j)
    THEN CHOOSE j \in 1..pid.b : LogicStops(j) /\ \A h \in 1..(j - 1) : ~LogicStops(h)
    ELSE pid.b

LogicalFormsShortCircuit ==
    pid.name = "logic"
    => /\ Len(output) <= LogicLast
       /\ output = Printed(Len(output))
       /\ Finished
            => /\ output = Printed(LogicLast)
               /\ IF ~\E j \in 1..pid.b : LogicStops(j)
                  THEN ctrl.m = "done" /\ lastValue = Bool(pid.c = 0)
                  ELSE IF LogicDigit(LogicLast) = 2
                  THEN /\ ctrl.m = "failed"
                       /\ ctrl.err.msg = "invalid type NUMBER"
                       /\ ctrl.err.arg = (IF pid.c = 0 THEN "and" ELSE "or")
                       /\ ctrl.err.loc = program[1].l[LogicLast + 1].loc
                  ELSE ctrl.m = "done" /\ lastValue = Bool(pid.c = 1)

(* (and true false 7): the second operand stopped the evaluation, the      *)
(* third one neither printed nor was type-checked.                         *)
AndStoppedAtFalse ==
    /\ pid = Id("logic", 1 + 0 * 3 + 2 * 9, 3, 0)
    /\ ctrl.m = "done"
    /\ lastValue = Bool(FALSE)
    /\ output = Printed(2)

----------------------------------------------------------------------------
(* A vector value whose elements are elems. *)
IsVectorOf(v, elems) ==
    /\ v # GoNil
    /\ v.t = "VECTOR"
    /\ v.len = Len(elems)
    /\ v.arr <= Len(arrays)
    /\ SubSeq(arrays[v.arr], 1, v.len) = elems

IsPrefix(s, t) == Len(s) <= Len(t) /\ s = SubSeq(t, 1, Len(s))

(* The value of argument j of the order programs when the arguments before *)
(* it have been evaluated, each once, in order: the digits 1 .. j.         *)
RECURSIVE OrderValue(_)
OrderValue(j) == IF j = 0 THEN 0 ELSE OrderValue(j - 1) * 10 + j
OrderValues(b) == [j \in 1..b |-> Number(OrderValue(j))]

(* The lines print writes in a run that evaluates the callee, then the     *)
(* arguments from the left, then calls.                                    *)
OrderOutput ==
    CASE pid.a = 1 -> <<(<<Number(0)>>)>> \o Printed(pid.b) \o <<OrderValues(pid.b)>>
      [] pid.a = 2 -> <<(<<Number(0)>>)>> \o Printed(pid.b) \o <<(<<Number(9)>>)>>
      [] pid.a = 3 -> Printed(pid.b)
      [] pid.a = 4 -> Printed(pid.b) \o <<(<<Number(9)>>)>>

(* C12: a call evaluates the callee, then each argument once from the left *)
(* to the right, and only then invokes the native or enters the body of    *)
(* the closure; the elements of a vector and the arguments of a recur are  *)
(* evaluated from the left to the right as well.  With a callee that       *)
(* prints 0, arguments that print their index and append it to the digits  *)
(* of x, and a body that prints 9, what has been printed is at every       *)
(* moment a prefix of 0, 1, .., b, (the call), and the values that reach   *)
(* the native, the parameters and the vector are 1, 12, 123, ...           *)
CalleeThenArgumentsLeftToRight ==
    pid.name = "order"
    => /\ IsPrefix(output, OrderOutput)
       /\ Finished
            => /\ ctrl.m = "done"
               /\ output = OrderOutput
               /\ Bound(global, "x", Number(OrderValue(pid.b)))
               /\ IF pid.a = 1 THEN lastValue = Nil
                  ELSE IsVectorOf(lastValue, OrderValues(pid.b))

(* The closure called with MaxArity arguments has returned its parameters. *)
ClosureGotArgumentsInOrder ==
    /\ pid = Id("order", 2, MaxArity, 0)
    /\ ctrl.m = "done"
    /\ IsVectorOf(lastValue, OrderValues(MaxArity))
    /\ output = <<(<<Number(0)>>)>> \o Printed(MaxArity) \o <<(<<Number(9)>>)>>

----------------------------------------------------------------------------
(* C13: when the head of a list has evaluated to a Number, String, Bool,   *)
(* Nil, Vector or Map, evalCallFunction returns the error "expression is   *)
(* not a function" at the head, right then: nothing is printed or changed  *)
(* by that step, and in the programs that call such a value the argument   *)
(* (print 1) is never evaluated and the evaluator does not crash.          *)
NonFunctionHeadIsError ==
    /\ [][(/\ Returning("evalCallFunction")
           /\ ctrl.m = "ret"
           /\ Top.pc = "callee"
           /\ ctrl.val # GoNil
           /\ ctrl.val.t \in {"NUMBER", "STRING", "BOOL", "NIL", "VECTOR", "MAP"})
            => /\ ctrl' = Fail(error("expression is not a function", "", Top.expr.l[1].loc))
               /\ stack' = Pop
               /\ UNCHANGED <<envs, arrays, maps, output>>]_vars
    /\ [](pid.name = "notfn"
            => /\ output = <<>>
               /\ ctrl.m # "panic"
               /\ Finished
                    => /\ ctrl.m = "failed"
                       /\ ctrl.err.msg = "expression is not a function"
                       /\ ctrl.err.loc = program[pid.b + 1].l[1].loc
                       /\ topIdx = pid.b + 1)

(* (var h (vector)) (h (print 1)) has failed at h, nothing printed. *)
VectorCalledIsError ==
    /\ pid = Id("notfn", 5, 1, 0)
    /\ ctrl.m = "failed"
    /\ ctrl.err.msg = "expression is not a function"
    /\ ctrl.err.loc = <<2, 1>>
    /\ output = <<>>

----------------------------------------------------------------------------
(* Where the failing expression of the abort programs is, and the error it *)
(* raises.                                                                 *)
AbortPlace == IF pid.a = 6 THEN <<2, 5>> ELSE <<2, 3>>
AbortError ==
    CASE pid.b = 1 -> error("unknown symbol", "nosuch", AbortPlace)
      [] pid.b = 2 -> error("invalid type BOOL", "+", AbortPlace)
      [] pid.b = 3 -> error("expression is not a function", "", Append(AbortPlace, 1))
      [] pid.b = 4 -> error("expected BOOL, found NUMBER", "", Append(AbortPlace, 2))

(* C14: a function of the evaluator that gets an error from the expression *)
(* it evaluated returns that same error at once and changes no scope,      *)
(* vector, map or output (EvalProgram ends the run with it).  So when the  *)
(* value of a var or set fails no binding is made or changed; when the     *)
(* second argument of a call fails the third is not evaluated and neither  *)
(* the native nor the closure runs; a vector or map whose second element   *)
(* fails is not made; a begin whose second expression fails does not       *)
(* evaluate the third; and the program ends with the error first raised.   *)
FirstErrorAborts ==
    /\ [][(ctrl.m = "err" /\ stack # <<>>)
            => /\ stack' = Pop
               /\ IF Top.f = "EvalProgram"
                  THEN ctrl' = [m |-> "failed", err |-> ctrl.err]
                  ELSE ctrl' = ctrl
               /\ UNCHANGED <<envs, arrays, maps, output>>]_vars
    /\ [](pid.name = "abort"
            => /\ IsPrefix(output, IF pid.a \in {1, 2} THEN <<>> ELSE Printed(1))
               /\ arrays = <<>>
               /\ maps = <<>>
               /\ topIdx >= 2 => envs[global].record = [n \in {"x"} |-> Number(0)]
               /\ Finished
                    => /\ ctrl = [m |-> "failed", err |-> AbortError]
                       /\ topIdx = 2
                       /\ output = (IF pid.a \in {1, 2} THEN <<>> ELSE Printed(1)))

(* (var x 0) (print (begin (print 1) 1) (+ 1 true) (begin (print 3) 3)):   *)
(* the error of + ended the program after the first argument had printed.  *)
SecondArgumentFailed ==
    /\ pid = Id("abort", 3, 2, 0)
    /\ ctrl.m = "failed"
    /\ ctrl.err = error("invalid type BOOL", "+", <<2, 3>>)
    /\ output = Printed(1)

----------------------------------------------------------------------------
(* C15: every error the evaluator returns carries a source location:       *)
(* whenever an error is being returned or has ended the program, its       *)
(* location is the place of an expression of the program.                  *)
EveryErrorHasLocation ==
    ctrl.m \in {"err", "failed"} => ctrl.err.loc # NoLoc

----------------------------------------------------------------------------
(* C16: after (vec:push v 9) with v bound to a vector of a elements, v,    *)
(* another binding of the same vector and a closure that returns it yield  *)
(* a vector of a + 1 elements whose last element is 9.                     *)
PushVisibleThroughBindings ==
    (pid.name = "push" /\ Finished)
    => /\ ctrl.m = "done"
       /\ lastValue = (IF pid.b = 1 THEN Number(pid.a + 1) ELSE Number(9))

----------------------------------------------------------------------------
(* The step in which evalCallFunction invokes the native `name`. *)
Invokes(name) ==
    /\ ctrl.m = "ret"
    /\ stack # <<>>
    /\ Top.f = "evalCallFunction"
    /\ Top.pc = "args"
    /\ Top.fn = NativeFunction(name)

(* What print writes at the end of the share programs when the vector or   *)
(* map is one object seen through every reference, and a slice is another. *)
ShareOutput ==
    CASE pid.a = 1 -> <<Number(9), Number(9), Number(9)>>
      [] pid.a = 2 -> <<Number(9)>>
      [] pid.a = 3 -> <<Number(9)>>
      [] pid.a = 4 -> <<Number(2), Number(2)>>
      [] pid.a = 5 -> <<Nil, Number(2)>>
      [] pid.a = 6 -> <<Number(5), Number(3), Number(3), Number(5)>>
      [] pid.a = 7 -> <<Number(7)>>
      [] pid.a = 8 -> <<Number(2), Number(9)>>
      [] pid.a = 9 -> <<Number(9), Number(2)>>

(* C17: vec:set, map:set, map:delete and map:merge change the container   *)
(* in place and return it: the call allocates no array and no map and its  *)
(* value is its first argument, and a change made through a second         *)
(* binding, an element of a vector, a parameter or a closure is read back  *)
(* through the first binding (and the other way round).  vec:slice returns *)
(* a vector over a new array and leaves the old arrays alone, so a vec:set *)
(* on the slice or on the original is not seen through the other.          *)
ContainersMutateInPlace ==
    /\ [][\A name \in {"vec:set", "map:set", "map:delete", "map:merge"} :
            (Invokes(name) /\ ctrl'.m = "ret")
            => /\ ctrl'.val = ctrl.val.vs[1]
               /\ Len(arrays') = Len(arrays)
               /\ Len(maps') = Len(maps)]_vars
    /\ [][(Invokes("vec:slice") /\ ctrl'.m = "ret")
            => /\ ctrl'.val.arr = Len(arrays) + 1
               /\ arrays' = Append(arrays, arrays'[Len(arrays) + 1])
               /\ maps' = maps]_vars
    /\ []((pid.name = "share" /\ Finished)
            => /\ ctrl.m = "done"
               /\ output = <<ShareOutput>>
               /\ pid.a \in {1, 4, 5, 6}
                    => envs[global].record["r"] = envs[global].record["w"])

(* (var v (vector 1 2 3)) (var w v) (var r (vec:set w 1 9)): the write     *)
(* through w was read back through v, w and r.                             *)
SetThroughAliasSeen ==
    /\ pid = Id("share", 1, 0, 0)
    /\ ctrl.m = "done"
    /\ output = << <<Number(9), Number(9), Number(9)>> >>
    /\ arrays = << <<Number(1), Number(9), Number(3)>> >>

----------------------------------------------------------------------------
(* What print has written when the traced expressions numbered in s have   *)
(* been evaluated in that order.                                           *)
Trace(s) == [j \in 1..Len(s) |-> <<Number(s[j])>>]

(* The trace of a cond program whose `if` evaluates the condition (1) once *)
(* and then the then-branch (2) or the else-branch (3) only; in the        *)
(* programs with recur the `if` runs once more after the jump.             *)
CondTrace ==
    CASE pid.b = 2 -> IF pid.a = 0 THEN <<1, 1, 3>> ELSE <<1, 1, 2>>
      [] pid.a = 1 -> <<1, 2>>
      [] pid.a = 0 /\ pid.b = 1 -> <<1, 3>>
      [] OTHER -> <<1>>

CondTypeName == CASE pid.a = 2 -> "NUMBER" [] pid.a = 3 -> "STRING" [] pid.a = 4 -> "NIL"

(* C18: `if` evaluates its condition once and then at most one branch.  A  *)
(* condition that is a Number, a String or Nil gives the error "expected   *)
(* BOOL" at the condition and neither branch prints; true evaluates the    *)
(* then-branch only and false the else-branch only, the value of the `if`  *)
(* being the value of that branch; false without else-branch gives Nil;    *)
(* and a recur that is the chosen branch restarts the closure's body       *)
(* instead of being rejected.                                              *)
IfEvaluatesOneBranch ==
    pid.name = "cond"
    => /\ IsPrefix(output, Trace(CondTrace))
       /\ Finished
            => /\ output = Trace(CondTrace)
               /\ IF pid.b < 2 /\ pid.a >= 2
                  THEN ctrl = [m |-> "failed",
                               err |-> error("expected BOOL, found " \o CondTypeName, "",
                                             <<1, 2>>)]
                  ELSE /\ ctrl.m = "done"
                       /\ lastValue = CASE pid.b = 2 -> Number(IF pid.a = 0 THEN 30 ELSE 20)
                                        [] pid.a = 1 -> Number(20)
                                        [] pid.b = 1 -> Number(30)
                                        [] OTHER -> Nil

(* (if (begin (print 1) false) (begin (print 2) 20)): Nil, and the         *)
(* then-branch did not print.                                              *)
FalseWithoutElseIsNil ==
    /\ pid = Id("cond", 0, 0, 0)
    /\ ctrl.m = "done"
    /\ lastValue = Nil
    /\ output = Trace(<<1>>)

----------------------------------------------------------------------------
(* The trace of a loop that evaluates its condition (1) before each of its *)
(* k iterations (2) and once more at the end.                              *)
RECURSIVE LoopTrace(_)
LoopTrace(k) == IF k = 0 THEN <<1>> ELSE <<1, 2>> \o LoopTrace(k - 1)

(* C19: `while` evaluates its condition before every iteration and returns *)
(* the value of the last evaluation of its body, and the Nil value when    *)
(* the body never ran: that value can be the value of the program, be      *)
(* bound by var and given to is-nil (which says true), and be the result   *)
(* of a closure body; as a condition, an operand of `and` or the head of a *)
(* call it is a value of the wrong type.  Nothing of this ends in a panic. *)
WhileReturnsLastValueOrNil ==
    (pid.name = "while" /\ Finished)
    => /\ ctrl.m # "panic"
       /\ output = Trace(LoopTrace(pid.a))
       /\ pid.b \in {1, 3}
            => ctrl.m = "done" /\ lastValue = (IF pid.a = 0 THEN Nil ELSE Number(pid.a))
       /\ pid.b = 2 => ctrl.m = "done" /\ lastValue = Bool(pid.a = 0)
       /\ pid.b > 3 => ctrl.m = "failed"

----------------------------------------------------------------------------
(* The map bound to `name` in the global scope. *)
MapOf(name) == maps[envs[global].record[name].ref]

(* What holds of the programs of map literals whatever a Symbol key means: *)
(* the values are evaluated in order, the last value written under a key   *)
(* wins, and every evaluation of a literal gives a new Map.                *)
MapLiteralValues ==
    /\ pid.a = 4 => /\ ctrl.m = "done"
                    /\ output = Trace(<<1, 2, 3>>) \o << <<Number(3), Number(2)>> >>
                    /\ DOMAIN MapOf("m") = {"a", "b"}
    /\ pid.a = 6 => /\ ctrl.m = "done"
                    /\ output = << <<Number(9), Number(1)>> >>
                    /\ envs[global].record["m"] # envs[global].record["n"]

(* C20 as stated: a bare Symbol key of a map literal is its own name and   *)
(* is not looked up: (map k v) has the key "k" whether k is bound to "a",  *)
(* to 5 or not at all, and (map "a" 1 k 2) has the two keys "a" and "k".   *)
SymbolKeyIsLiteral ==
    (pid.name = "mapkey" /\ Finished)
    => /\ MapLiteralValues
       /\ pid.a \in {1, 2, 3, 5}
            => /\ ctrl.m = "done"
               /\ "k" \in DOMAIN MapOf("m")
               /\ pid.a = 1 => output = Trace(<<1, 2>>) \o << <<Nil, Number(1), Number(2)>> >>
               /\ pid.a = 5 => output = << <<Number(1), Number(2)>> >>

(* C20, amended: every key of a map literal is evaluated like any other    *)
(* expression and must yield a String, which is the key.  A bare Symbol    *)
(* key is looked up as a variable: with k bound to "a" the key of          *)
(* (map k v) is "a", with k unbound the literal fails with "unknown        *)
(* symbol" and with k bound to 5 with "invalid map key type", both at the  *)
(* key, and no Map is made; a Number written as key fails likewise.  The   *)
(* values are evaluated in order, the last value written under a key wins  *)
(* (also when the key is given once as String and once through a Symbol),  *)
(* and the result is a new Map.                                            *)
MapKeysAreEvaluated ==
    (pid.name = "mapkey" /\ Finished)
    => /\ MapLiteralValues
       /\ pid.a = 1 => /\ ctrl.m = "done"
                       /\ output = Trace(<<1, 2>>) \o << <<Number(1), Nil, Number(2)>> >>
                       /\ DOMAIN MapOf("m") = {"a", "b"}
       /\ pid.a = 2 => /\ ctrl = [m |-> "failed",
                                  err |-> error("unknown symbol", "k", <<2, 3, 2>>)]
                       /\ maps = <<>>
       /\ pid.a \in {3, 7}
            => /\ ctrl = [m |-> "failed",
                          err |-> error("invalid map key type: expected string, got NUMBER",
                                        "", <<2, 3, 2>>)]
               /\ maps = <<>>
       /\ pid.a = 5 => /\ ctrl.m = "done"
                       /\ output = << <<Number(2), Nil>> >>
                       /\ DOMAIN MapOf("m") = {"a"}

(* (var k "a") (var m (map k 1 "b" 2)): the value is stored under "a", the *)
(* value of k, and m has no key "k".                                       *)
SymbolKeyLookedUp ==
    /\ pid = Id("mapkey", 1, 0, 0)
    /\ ctrl.m = "done"
    /\ MapOf("m") = [n \in {"a", "b"} |-> IF n = "a" THEN Number(1) ELSE Number(2)]
    /\ output = Trace(<<1, 2>>) \o << <<Number(1), Nil, Number(2)>> >>

----------------------------------------------------------------------------
(* The operands of the plus program: their kinds, their values as numbers  *)
(* and the way they are written out.                                       *)
PlusDigit(j) == (pid.a \div (4 ^ (j - 1))) % 4
PlusHas(d) == \E j \in 1..pid.b : PlusDigit(j) = d
PlusNumber(j) == IF PlusDigit(j) = 1 THEN 12 ELSE 0
PlusText(j) == <<"0", "12", "a", "true">>[PlusDigit(j) + 1]

RECURSIVE PlusSum(_)
PlusSum(k) == IF k = 0 THEN 0 ELSE PlusSum(k - 1) + PlusNumber(k)

RECURSIVE PlusJoined(_)
PlusJoined(k) == IF k = 0 THEN "" ELSE PlusJoined(k - 1) \o PlusText(k)

(* C21 as stated: with a String among the operands the result is the      *)
(* concatenation of the renderings of all operands, whatever their types   *)
(* are; without one the operands must be Numbers and the result is their   *)
(* sum.                                                                    *)
PlusConcatenatesAnyTypes ==
    (pid.name = "plus" /\ Finished)
    => IF PlusHas(2)
       THEN ctrl.m = "done" /\ lastValue = String(PlusJoined(pid.b))
       ELSE IF PlusHas(3)
       THEN ctrl.m = "failed"
       ELSE ctrl.m = "done" /\ lastValue = Number(PlusSum(pid.b))

(* C21, amended: every operand of + must be a Number or a String (a Bool   *)
(* operand is the error "invalid type BOOL" at the call, with or without a *)
(* String among the operands); then, with a String among them the result   *)
(* is the concatenation, in operand order, of the renderings of all the    *)
(* operands, and otherwise it is their sum.                                *)
PlusConcatenatesOrSums ==
    (pid.name = "plus" /\ Finished)
    => IF PlusHas(3)
       THEN ctrl = [m |-> "failed", err |-> error("invalid type BOOL", "+", <<1>>)]
       ELSE IF PlusHas(2)
       THEN ctrl.m = "done" /\ lastValue = String(PlusJoined(pid.b))
       ELSE ctrl.m = "done" /\ lastValue = Number(PlusSum(pid.b))

(* (+ "a" 12 "a") is "a12a" *)
PlusMixedIsText ==
    /\ pid = Id("plus", 2 + 1 * 4 + 2 * 16, 3, 0)
    /\ ctrl.m = "done"
    /\ lastValue = String("a12a")

----------------------------------------------------------------------------
(* The activation environments of f in a turn program, oldest first. *)
Turns == SelectSeq(envs, LAMBDA e : "n" \in DOMAIN e.record)

(* C24: every turn of the recur loop runs the body in a new environment    *)
(* under the closure's environment: turn k of (f a ..) has its own n and,  *)
(* once the var has run, its own t, both a - k + 1, and keeps them while   *)
(* later turns run; no turn fails with "already defined", and the closure  *)
(* made in the turn with n = b still yields b + b when it is called in the *)
(* last turn.                                                              *)
EveryTurnHasNewEnvironment ==
    (pid.name = "turn")
    => /\ \A k \in 1..Len(Turns) :
            /\ Turns[k].parent = 1
            /\ Turns[k].record["n"] = Number(pid.a - k + 1)
            /\ DOMAIN Turns[k].record \subseteq {"n", "k", "t"}
            /\ ("t" \in DOMAIN Turns[k].record)
               => Turns[k].record["t"] = Number(pid.a - k + 1)
            /\ (k < Len(Turns)) => "t" \in DOMAIN Turns[k].record
       /\ ctrl.m \notin {"failed", "panic"}
       /\ Finished => /\ Len(Turns) = pid.a + 1
                      /\ lastValue = Number(pid.b + pid.b)

(* (f 3 ..) with the closure of the second turn has ended with 4 *)
ClosureOfSecondTurnSeesTwo ==
    /\ pid = Id("turn", 3, 2, 0)
    /\ ctrl.m = "done"
    /\ lastValue = Number(4)
    /\ Len(Turns) = 4

----------------------------------------------------------------------------
(* The run has failed because name is already bound in the scope of a var. *)
AlreadyDefined(name) ==
    /\ ctrl.m = "failed"
    /\ ctrl.err.msg = "symbol already defined"
    /\ ctrl.err.arg = name

(* The result of a barevar program that ends without error. *)
BareVarResult ==
    <<Number(1), Number(2), Number(1), GoNil, GoNil, Number(6), Bool(TRUE), Number(8),
      Number(10)>>

(* C25: only begin and closure calls create scopes.  In every step that    *)
(* adds an environment, evalBegin is entered or evalCallFunction starts a  *)
(* closure's body, and exactly one environment is added.  A var that is an *)
(* if branch, a while body, an operand of or, or an argument binds in the  *)
(* scope the form is in and is visible after it; (while true (var x 4))    *)
(* fails with "already defined" in its second turn with x bound to 4 in    *)
(* the enclosing scope; (var p ..) as the body of a closure with the       *)
(* parameter p fails with "already defined", and in a begin it shadows p.  *)
OnlyBeginAndCallsCreateScopes ==
    /\ [][Len(envs') # Len(envs)
          => /\ Len(envs') = Len(envs) + 1
             /\ \/ Entering("evalBegin")
                \/ /\ Returning("evalCallFunction")
                   /\ Top.fn # GoNil
                   /\ Top.fn.t = "FUNC"
                   /\ ctrl'.m = "call"
                   /\ ctrl'.expr = Top.fn.body
                   /\ ctrl'.env = Len(envs')]_vars
    /\ []((pid.name = "barevar" /\ Finished)
          => CASE pid.a = 4 -> /\ AlreadyDefined("x")
                               /\ envs[global].record["x"] = Number(4)
                               /\ Len(envs) = 1
               [] pid.a = 5 -> /\ AlreadyDefined("p")
                               /\ Len(envs) = 2
                               /\ envs[2].record["p"] = Number(1)
               [] OTHER -> /\ ctrl.m = "done"
                           /\ lastValue = BareVarResult[pid.a]
                           /\ (pid.a \in {1, 2, 3, 7, 8}) => Len(envs) = 1)

(* (while true (var x 4)) has failed in its second turn *)
BareVarInWhileFailed ==
    /\ pid = Id("barevar", 4, 0, 0)
    /\ AlreadyDefined("x")
    /\ envs[global].record["x"] = Number(4)

----------------------------------------------------------------------------
(* C26: (sum a) written with a plain self-call and (sum a 0) written with  *)
(* recur and an accumulator both end with a(a+1)/2 for every a in 0..MaxN; *)
(* the closure bound to sum holds the very scope that binds its name, so   *)
(* the self-call by name finds it.                                         *)
RecurAndSelfCallAgree ==
    (pid.name \in {"sum", "sumTCO"})
    => /\ Finished => /\ ctrl.m = "done"
                      /\ lastValue = Number((pid.a * (pid.a + 1)) \div 2)
       /\ ("sum" \in DOMAIN envs[global].record)
          => /\ envs[global].record["sum"].t = "FUNC"
             /\ envs[global].record["sum"].env = global

(* (sum MaxN) with a self-call has returned MaxN(MaxN+1)/2 *)
SelfCallSumDone ==
    /\ pid = Id("sum", MaxN, 0, 0)
    /\ ctrl.m = "done"
    /\ lastValue = Number((MaxN * (MaxN + 1)) \div 2)
    /\ Len(envs) = MaxN + 2

----------------------------------------------------------------------------
(* The sequence of elements seen through the binding of name in the        *)
(* outermost scope.                                                        *)
Observed(name) ==
    LET v == envs[global].record[name]
    IN  SubSeq(arrays[v.arr], 1, v.len)

(* 1 .. a, and the same without the element a shrink program removes. *)
ShrinkOriginal == [j \in 1..pid.a |-> Number(j)]
ShrinkShortened ==
    LET gone == IF pid.b = 0 THEN pid.a ELSE pid.b
    IN  [j \in 1..(pid.a - 1) |-> Number(IF j < gone THEN j ELSE j + 1)]

(* C30: through v and through its alias w a binding observes the original  *)
(* sequence until vec:delete or vec:pop has returned and the sequence      *)
(* without the removed element afterwards, whose length (vec:len v)        *)
(* yields; no binding ever observes anything else.                         *)
ShrinkVisibleThroughBindings ==
    (pid.name = "shrink")
    => /\ \A name \in {"v", "w"} \cap DOMAIN envs[global].record :
            Observed(name) = (IF "r" \in DOMAIN envs[global].record
                              THEN ShrinkShortened ELSE ShrinkOriginal)
       /\ Finished => (ctrl.m = "done" /\ lastValue = Number(pid.a - 1))

----------------------------------------------------------------------------
(* The numbers that the top-level (print n) expressions of prog print, in  *)
(* order (0 for any other expression).                                     *)
PrintsOf(prog) ==
    [j \in 1..Len(prog) |->
        IF prog[j].k = "list" /\ Len(prog[j].l) = 2 /\ IsSymbol(prog[j].l[1], "print")
        THEN prog[j].l[2].n ELSE 0]

(* The build of an include program has handed its program over. *)
Built == pid.name = "include" /\ ctrl.m \notin {"build", "rejected"}

(* C22: the build of a file that includes itself, of two files that        *)
(* include each other, of a diamond and of a file included under two       *)
(* spellings of its path ends, and without error; while it runs no path is *)
(* noted as parsed twice and the files being built are all different; in   *)
(* the program handed over no expression of a file occurs twice and no     *)
(* top-level include is left.                                              *)
BuildTerminatesOnAnyIncludeGraph ==
    /\ [](pid.name = "include" /\ ctrl.m = "build"
          => /\ \A j, h \in 1..Len(ctrl.parsedFiles) :
                    ctrl.parsedFiles[j] = ctrl.parsedFiles[h] => j = h
             /\ \A j \in 1..Len(stack) : fileWasParsed(ctrl.parsedFiles, stack[j].filename)
             /\ \A j, h \in 1..Len(stack) : stack[j].filename = stack[h].filename => j = h)
    /\ [](pid.name = "include" /\ pid.a \in 1..4 => ctrl.m # "rejected")
    /\ [](Built /\ pid.a \in 1..4
          => /\ \A j, h \in 1..Len(program) :
                    PrintsOf(program)[j] = PrintsOf(program)[h] => j = h
             /\ \A j \in 1..Len(program) : ~isIncludeExpr(program[j]))
    /\ (pid.name = "include" /\ pid.a \in 1..4)
       => <>(pid.name = "include" /\ ctrl.m = "idle" /\ topIdx = 1)

(* the build of two files that include each other has ended *)
MutualIncludeBuilt ==
    /\ pid = Id("include", 2, 0, 0)
    /\ ctrl.m = "idle"
    /\ topIdx = 1
    /\ Len(program) = 4

(* The depth-first expansion of the include programs, as the numbers       *)
(* printed.                                                                *)
DepthFirst ==
    << <<11, 12>>, <<11, 21, 22, 12>>, <<41, 21, 31, 11>>, <<21, 31, 11>> >>

(* C29: the program the builder hands over is the depth-first expansion of *)
(* the top-level includes: the expressions of an included file stand, in   *)
(* their order, where its first include stood, before the rest of the      *)
(* including file (main, b, main again: 11 21 22 12; the diamond main ->   *)
(* b, c -> d: 41 21 31 11); nothing is lost or doubled and no top-level    *)
(* include is left.  Every expansion step puts the included program        *)
(* between the expressions before and after the include.                   *)
ProgramIsDepthFirstExpansion ==
    /\ [](Built /\ pid.a \in 1..4
          => /\ PrintsOf(program) = DepthFirst[pid.a]
             /\ \A j \in 1..Len(program) : ~isIncludeExpr(program[j]))
    /\ [][(pid.name = "include" /\ ctrl.m = "build" /\ Len(stack) > 1
           /\ Len(stack') = Len(stack) - 1)
          => LET parent == stack[Len(stack) - 1]
                 after == stack'[Len(stack')]
             IN  /\ isIncludeExpr(parent.program[parent.idx])
                 /\ after.program = SubSeq(parent.program, 1, parent.idx - 1)
                                    \o Top.program
                                    \o SubSeq(parent.program, parent.idx + 1,
                                              Len(parent.program))
                 /\ after.idx = parent.idx + Len(Top.program)
                 /\ \A j \in 1..Len(Top.program) : ~isIncludeExpr(Top.program[j])]_vars

(* the diamond has been built: d, b, c, main *)
DiamondBuilt ==
    /\ pid = Id("include", 3, 0, 0)
    /\ ctrl.m = "idle"
    /\ topIdx = 1
    /\ PrintsOf(program) = <<41, 21, 31, 11>>

----------------------------------------------------------------------------
(* The first case of a well-formed switch program whose condition is true; *)
(* 0 if there is none.                                                     *)
SwitchTaken ==
    IF \E j \in 1..pid.b : (pid.a \div (2 ^ (j - 1))) % 2 = 1
    THEN CHOOSE j \in 1..pid.b :
             /\ (pid.a \div (2 ^ (j - 1))) % 2 = 1
             /\ \A h \in 1..(j - 1) : (pid.a \div (2 ^ (h - 1))) % 2 = 0
    ELSE 0

(* What the nested if of a well-formed switch program prints: conditions 1 *)
(* up to the first true one and its value, or all of them and the default. *)
SwitchTrace ==
    IF SwitchTaken = 0
    THEN Trace([j \in 1..(pid.b + 1) |-> IF j <= pid.b THEN j ELSE 20])
    ELSE Trace([j \in 1..(SwitchTaken + 1) |->
                   IF j <= SwitchTaken THEN j ELSE 10 + SwitchTaken])

(* C27: (switch (c1 v1) .. (ck vk) (default d)) behaves as the nested if:  *)
(* the conditions are evaluated in order up to the first true one, whose   *)
(* value is the only value evaluated and is the result, and d is the       *)
(* result when all are false; this holds for conditions that print and     *)
(* compare, for a condition that is a variable and for a condition that is *)
(* the literal true.  A switch without a final (default x) of two          *)
(* elements, or with a case that is not a list of two elements, is         *)
(* rejected and nothing is evaluated.                                      *)
SwitchBehavesAsNestedIf ==
    (pid.name = "switch")
    => CASE pid.c = 0 -> /\ ctrl.m # "rejected"
                         /\ IsPrefix(output, SwitchTrace)
                         /\ Finished
                            => /\ ctrl.m = "done"
                               /\ output = SwitchTrace
                               /\ lastValue = Number(IF SwitchTaken = 0 THEN 9
                                                     ELSE SwitchTaken)
         [] pid.c \in 1..4 -> /\ ctrl.m \in {"build", "rejected"}
                              /\ output = <<>>
         [] pid.c \in 5..6 -> /\ ctrl.m # "rejected"
                              /\ Finished => (ctrl.m = "done" /\ lastValue = Number(1))

----------------------------------------------------------------------------
(* What a for program with a turns prints: init, then condition, body and  *)
(* increment for every turn, then the condition that ends the loop.        *)
RECURSIVE ForTurns(_)
ForTurns(k) == IF k = 0 THEN <<>> ELSE ForTurns(k - 1) \o <<2, 3, 4>>
ForTrace == Trace(<<1>> \o ForTurns(pid.a) \o <<2>>)

(* The scopes that bind name, oldest first. *)
ScopesWith(name) == SelectSeq(envs, LAMBDA e : name \in DOMAIN e.record)

(* C28: (for init cond inc body) behaves as                                *)
(* (begin init (while cond (begin body inc))).  init is evaluated once, in *)
(* a scope of the for: after the loop i is unbound, and an i and a t of    *)
(* the enclosing scope keep their values 7 and 8.  Every turn evaluates    *)
(* the condition, then the body, then the increment, and the loop ends     *)
(* when the condition is false for the first time, after a turns.  The     *)
(* (var t ..) of the body binds in a new scope in every turn (turn k binds *)
(* t to k - 1 under the scope of i) and never fails.  A for that has not   *)
(* four parts is rejected before anything is evaluated.                    *)
ForBehavesAsBeginWhile ==
    (pid.name = "for")
    => IF pid.b = 4 THEN ctrl.m \in {"build", "rejected"} /\ output = <<>>
       ELSE LET own == IF pid.b = 3 THEN 1 ELSE 0
                is == ScopesWith("i")
                ts == ScopesWith("t")
            IN  /\ ctrl.m # "rejected"
                /\ IsPrefix(output, ForTrace)
                /\ Len(is) <= own + 1
                /\ Len(ts) <= own + pid.a
                /\ \A k \in 1..Len(ts) :
                      IF k <= own THEN ts[k] = envs[global]
                      ELSE /\ ts[k].record["t"] = Number(k - own - 1)
                           /\ DOMAIN ts[k].record = {"t"}
                           /\ envs[ts[k].parent] = is[Len(is)]
                /\ (Len(is) = own + 1) => /\ is[Len(is)].parent = global
                                          /\ DOMAIN is[Len(is)].record = {"i"}
                /\ (pid.b = 3 /\ Len(is) > 0) => /\ is[1].record["i"] = Number(7)
                                                 /\ is[1] = envs[global]
                /\ Finished
                   => /\ output = ForTrace
                      /\ Len(ts) = own + pid.a
                      /\ is[Len(is)].record["i"] = Number(pid.a)
                      /\ CASE pid.b = 1 -> ctrl.m = "done"
                           [] pid.b = 2 -> /\ ctrl.m = "failed"
                                           /\ ctrl.err.arg = "i"
                           [] pid.b = 3 -> ctrl.m = "done" /\ lastValue = Number(15)

(* the for of MaxIterations turns has ended and i is unbound after it *)
LoopVariableGoneAfterFor ==
    /\ pid = Id("for", MaxIterations, 2, 0)
    /\ ctrl.m = "failed"
    /\ ctrl.err.arg = "i"
    /\ output = ForTrace
    /\ Len(ScopesWith("t")) = MaxIterations

----------------------------------------------------------------------------
(* C23: the two evaluations of a program, each in a new interpreter,       *)
(* report the same rendering of the last value or the same error.          *)
TwoEvaluationsAgree ==
    (pid.name = "twice" /\ Len(output) = 2) => output[1] = output[2]

====
